---------------------------- MODULE Spec2Model ----------------------------
(***************************************************************************)
(* A model of the Tonk game backend: the card library (utils/cards.js),    *)
(* the rules engine and the AI agent (utils/gameRules.js, which also holds *)
(* the AI module), and the game controller                                 *)
(* (controllers/gameController.js) with its persistence collaborators.     *)
(*                                                                         *)
(* A card is its id number 0..39 (createDeck numbers the cards suit by     *)
(* suit, rank by rank), seats are 0..3 as in the players array, the deck   *)
(* is a sequence whose LAST element is the one pop() takes, the discard    *)
(* pile a sequence whose FIRST element is index 0 of the JavaScript array. *)
(***************************************************************************)
EXTENDS Integers, Sequences, FiniteSets, TLC

\* ------------------------------------------------------------------------
\* utils/cards.js
\* ------------------------------------------------------------------------

NumSuits == 4
NumRanks == 10
NumCards == NumSuits * NumRanks
HandSize == 5
NumPlayers == 4
ReshuffleThreshold == 5

Cards == 0 .. (NumCards - 1)
Seats == 0 .. (NumPlayers - 1)

\* createDeck: id = suit index * 10 + rank index, ranks A,2..7,J,Q,K
Suit(c) == c \div NumRanks
Rank(c) == c % NumRanks
\* the values table of createDeck: A=1, 2..7 face value, J=Q=K=10
Value(c) == IF Rank(c) <= 6 THEN Rank(c) + 1 ELSE 10

Range(s) == { s[i] : i \in DOMAIN s }
SetMin(S) == CHOOSE x \in S : \A y \in S : x <= y
SetMax(S) == CHOOSE x \in S : \A y \in S : x >= y

\* Array.prototype.pop / shift / unshift / push / splice(i, 1)
Pop(s) == SubSeq(s, 1, Len(s) - 1)
Top(s) == s[Len(s)]
RemoveAt(s, i) == SubSeq(s, 1, i - 1) \o SubSeq(s, i + 1, Len(s))
\* findIndex(card => card.id === cardId): first position, 0 when absent
IndexOf(s, c) ==
  IF \E i \in DOMAIN s : s[i] = c
  THEN SetMin({ i \in DOMAIN s : s[i] = c })
  ELSE 0

\* calculateHandScore: the sum of the card values, 0 for the empty hand
RECURSIVE calculateHandScore(_)
calculateHandScore(hand) ==
  IF hand = << >> THEN 0
  ELSE Value(Head(hand)) + calculateHandScore(Tail(hand))

\* a card that has a rank and a suit (null, undefined and cards without
\* them are filtered out by isValidSpread)
wellFormed(c) == c \in Cards

\* isValidSpread with the test of consecutive values left out
isSpreadOfGapless(cards, n, vals) ==
  IF n < 3 THEN FALSE
  ELSE IF \A i \in 1 .. n : Rank(cards[i]) = Rank(cards[1]) THEN TRUE
  ELSE IF ~ (\A i \in 1 .. n : Suit(cards[i]) = Suit(cards[1])) THEN FALSE
  ELSE Cardinality(vals) = n

\* isValidSpread, lines 70-97, on the cards left by the filter: all one
\* rank, or all one suit with pairwise distinct values that are
\* consecutive once sorted
isSpreadOf(cards, n, vals) ==
  IF n < 3 THEN FALSE
  ELSE IF \A i \in 1 .. n : Rank(cards[i]) = Rank(cards[1]) THEN TRUE
  ELSE IF ~ (\A i \in 1 .. n : Suit(cards[i]) = Suit(cards[1])) THEN FALSE
  ELSE IF Cardinality(vals) # n THEN FALSE
  ELSE \A v \in vals : v = SetMin(vals) \/ (v - 1) \in vals

validCardsOf(cards) == SelectSeq(cards, wellFormed)

isValidSpreadOn(validCards) ==
  isSpreadOf(validCards, Len(validCards),
             { Value(validCards[i]) : i \in DOMAIN validCards })

\* isValidSpread: at least 3 cards, at least 3 of them well formed
isValidSpread(cards) ==
  IF Len(cards) < 3 THEN FALSE ELSE isValidSpreadOn(validCardsOf(cards))

\* dealCards handing each player five cards in a row
dealCardsInBlocks(deck) ==
  [ hands |-> [ j \in Seats |->
                  [ i \in 1 .. HandSize |->
                      deck[Len(deck) - (j * HandSize + i - 1)] ] ],
    deck  |-> SubSeq(deck, 1, Len(deck) - HandSize * NumPlayers) ]

\* dealCards: 5 rounds, one card per player per round, each popped from the
\* end of the deck; card number k (0-based) of the deal goes to seat k % 4
dealCards(deck) ==
  [ hands |-> [ j \in Seats |->
                  [ i \in 1 .. HandSize |->
                      deck[Len(deck) - ((i - 1) * NumPlayers + j)] ] ],
    deck  |-> SubSeq(deck, 1, Len(deck) - HandSize * NumPlayers) ]

\* needsReshuffle(deck, discardPile, threshold = 5)
needsReshuffle(deck, discardPile) ==
  Len(deck) <= ReshuffleThreshold /\ Len(discardPile) > 1

\* shuffle: Fisher-Yates returns some permutation of its input; the model
\* draws the permutation from a family indexed by a seed: seed k rotates
\* the reversed array by k places (each is an outcome Math.random allows)
Reverse(s) == [ i \in 1 .. Len(s) |-> s[Len(s) + 1 - i] ]
shuffle(s, seed) ==
  LET n == Len(s)
      r == Reverse(s)
  IN  IF n = 0 THEN s
      ELSE [ i \in 1 .. n |-> r[((i - 1 + seed) % n) + 1] ]

\* reshuffleDeck shuffling the whole discard pile into the deck
reshuffleDeckWholePile(deck, discardPile, seed) ==
  IF Len(discardPile) <= 1
  THEN [ deck |-> deck, discardPile |-> discardPile ]
  ELSE [ deck |-> shuffle(deck \o discardPile, seed),
         discardPile |-> << >> ]

\* reshuffleDeck: keeps discardPile[0], shuffles the rest into the deck
reshuffleDeck(deck, discardPile, seed) ==
  IF Len(discardPile) <= 1
  THEN [ deck |-> deck, discardPile |-> discardPile ]
  ELSE [ deck |-> shuffle(deck \o Tail(discardPile), seed),
         discardPile |-> << Head(discardPile) >> ]

\* ------------------------------------------------------------------------
\* utils/gameRules.js: the rules engine
\* ------------------------------------------------------------------------

DropAlways == 11
DropFirstTurn == 41
DropRegular == 50
BasePenalty == 2

\* canPlayerDrop(player, isFirstTurn)
\* canPlayerDrop with the test of the penalties left out
canPlayerDropPenalized(player, isFirstTurn) ==
  calculateHandScore(player.hand) <= DropRegular

\* canPlayerDrop with the first-turn limit of 41 replacing the regular one
\* on a first turn
canPlayerDropFirstTurnCap(player, isFirstTurn) ==
  LET score == calculateHandScore(player.hand)
  IN  IF player.penalties > 0 THEN FALSE
      ELSE IF score <= DropAlways THEN TRUE
      ELSE IF isFirstTurn THEN score <= DropFirstTurn
      ELSE score <= DropRegular

canPlayerDrop(player, isFirstTurn) ==
  LET score == calculateHandScore(player.hand)
  IN  IF player.penalties > 0 THEN FALSE
      ELSE IF score <= DropAlways THEN TRUE
      ELSE IF isFirstTurn /\ score <= DropFirstTurn THEN TRUE
      ELSE score <= DropRegular

\* calculateWinningMultiplier without the double payout at exactly 50
calculateWinningMultiplierNoDouble(score, isFirstTurn) ==
  IF score <= DropAlways THEN 3
  ELSE IF isFirstTurn /\ score = DropFirstTurn THEN 3
  ELSE 1

\* calculateWinningMultiplier(score, isFirstTurn)
calculateWinningMultiplier(score, isFirstTurn) ==
  IF score <= DropAlways THEN 3
  ELSE IF isFirstTurn /\ score = DropFirstTurn THEN 3
  ELSE IF score = DropRegular THEN 2
  ELSE 1

\* findExistingSpreads: every rank held 3 times or more is a set; the cards
\* no set uses are grouped by suit, each group of 3 or more is sorted by
\* value and cut into maximal stretches of values rising by exactly 1; a
\* stretch of 3 or more is a run.  J, Q and K all count 10, so two of them
\* never follow one another in a stretch and no card has value 8 or 9: a
\* run lies within the values 1..7, where a suit has one card per value.
\* A spread is [type, cards (a set)].
findExistingSpreads(hand) ==
  LET idx == DOMAIN hand
      rankGroup(r) == { i \in idx : Rank(hand[i]) = r }
      setRanks == { r \in 0 .. (NumRanks - 1) : Cardinality(rankGroup(r)) >= 3 }
      used == UNION { rankGroup(r) : r \in setRanks }
      suitGroup(s) == { hand[i] : i \in { k \in idx \ used : Suit(hand[k]) = s } }
      has(g, v) == \E c \in g : Value(c) = v
      stretch(g, lo, hi) ==
        /\ hi - lo >= 2
        /\ \A v \in lo .. hi : has(g, v)
        /\ ~ has(g, lo - 1)
        /\ ~ has(g, hi + 1)
      runsOf(g) ==
        IF Cardinality(g) < 3 THEN {}
        ELSE { [ type |-> "run",
                 cards |-> { c \in g : Value(c) \in p[1] .. p[2] } ] :
                 p \in { q \in (1 .. 7) \X (1 .. 7) : stretch(g, q[1], q[2]) } }
  IN  { [ type |-> "set", cards |-> { hand[i] : i \in rankGroup(r) } ] :
          r \in setRanks }
      \cup UNION { runsOf(suitGroup(s)) : s \in 0 .. (NumSuits - 1) }

\* cardHitsSpread: same rank as a set; same suit as a run and value one
\* below its minimum or one above its maximum
cardHitsSpread(card, spread) ==
  LET first == CHOOSE c \in spread.cards : TRUE
      values == { Value(c) : c \in spread.cards }
  IN  IF spread.type = "set" THEN Rank(card) = Rank(first)
      ELSE /\ Suit(card) = Suit(first)
           /\ \/ Value(card) = SetMin(values) - 1
              \/ Value(card) = SetMax(values) + 1

\* wouldHitSpread(card, targetPlayer, allPlayers).hit: the spreads of every
\* player EXCEPT targetPlayer are scanned
wouldHitSpread(card, target, players) ==
  \E q \in Seats :
     /\ q # target
     /\ \E sp \in findExistingSpreads(players[q].hand) : cardHitsSpread(card, sp)

\* ------------------------------------------------------------------------
\* The game document.  A mongoose document remembers which paths were
\* assigned since it was loaded: `dirty` holds <<seat, field>> for a path
\* under players.<seat> and <<-1, field>> for a top-level path.  Assigning
\* a scalar its present value marks nothing; every array operation
\* (push, pop, shift, unshift, splice, assignment) marks the array.
\* ------------------------------------------------------------------------

TopLevel == 0 - 1
ArrayFields == { "hand", "deck", "discardPile" }

SetP(g, i, f, val) ==
  IF g.players[i][f] = val THEN g
  ELSE [ g EXCEPT !.players[i][f] = val, !.dirty = @ \cup { <<i, f>> } ]
PutHand(g, i, val) ==
  [ g EXCEPT !.players[i].hand = val, !.dirty = @ \cup { <<i, "hand">> } ]
SetTop(g, f, val) ==
  IF g[f] = val THEN g
  ELSE [ g EXCEPT ![f] = val, !.dirty = @ \cup { <<TopLevel, f>> } ]
PutTop(g, f, val) ==
  [ g EXCEPT ![f] = val, !.dirty = @ \cup { <<TopLevel, f>> } ]

\* game.players.findIndex(p => p.id === userId): the seat, -1 when absent
SeatOf(g, userId) ==
  IF \E i \in Seats : g.players[i].id = userId
  THEN SetMin({ i \in Seats : g.players[i].id = userId })
  ELSE 0 - 1

\* handleDrop and validateDrop taking every drop for a first turn
isFirstTurnAlways(g, i) ==
  TRUE

\* game.players.every(p => !p.isDropped || p.id === player.id)
isFirstTurn(g, i) ==
  \A q \in Seats : ~ g.players[q].isDropped \/ g.players[q].id = g.players[i].id

\* applyHitPenalties counting the hit before it sets the penalty
RECURSIVE applyHitPenaltiesCountFirstFrom(_, _, _, _)
applyHitPenaltiesCountFirstFrom(g, card, drawer, i) ==
  IF i >= NumPlayers THEN g
  ELSE IF i # drawer /\ wouldHitSpread(card, i, g.players)
  THEN LET g1 == SetP(g, i, "hitCount", g.players[i].hitCount + 1)
           g2 == SetP(g1, i, "penalties", BasePenalty + g1.players[i].hitCount)
       IN  applyHitPenaltiesCountFirstFrom(g2, card, drawer, i + 1)
  ELSE applyHitPenaltiesCountFirstFrom(g, card, drawer, i + 1)
applyHitPenaltiesCountFirst(g, card, drawer) ==
  applyHitPenaltiesCountFirstFrom(g, card, drawer, 0)

\* applyHitPenalties(game, card, playerId): every player but the drawer for
\* whom wouldHitSpread(card, player, game.players) reports a hit gets
\* penalties = 2 + hitCount and then hitCount + 1
RECURSIVE applyHitPenaltiesFrom(_, _, _, _)
applyHitPenaltiesFrom(g, card, drawer, i) ==
  IF i >= NumPlayers THEN g
  ELSE IF i # drawer /\ wouldHitSpread(card, i, g.players)
  THEN LET g1 == SetP(g, i, "penalties", BasePenalty + g.players[i].hitCount)
           g2 == SetP(g1, i, "hitCount", g.players[i].hitCount + 1)
       IN  applyHitPenaltiesFrom(g2, card, drawer, i + 1)
  ELSE applyHitPenaltiesFrom(g, card, drawer, i + 1)
applyHitPenalties(g, card, drawer) == applyHitPenaltiesFrom(g, card, drawer, 0)

\* getCombinations / findPlayableSpreads: the combinations of 3 or more
\* cards of the hand that isValidSpread accepts; a combination is given as
\* the set of its cards.  isValidSpread accepts 3 or more cards of one
\* rank, and the cards of one suit whose values are exactly lo..hi with
\* hi - lo >= 2 (no two cards of a suit share a value below 10, and J, Q, K
\* share the value 10, so hi <= 7): these are enumerated directly.
findPlayableSpreads(hand) ==
  LET cards == Range(hand)
      ofRank(c) == { d \in cards : Rank(d) = Rank(c) }
      run(c, hi) == { d \in cards : Suit(d) = Suit(c) /\ Value(d) \in Value(c) .. hi }
  IN  UNION { { S \in SUBSET ofRank(c) : Cardinality(S) >= 3 } :
                c \in { d \in cards : Cardinality(ofRank(d)) >= 3 } }
      \cup { run(p[1], p[2]) :
               p \in { q \in cards \X (3 .. 7) :
                         /\ q[2] - Value(q[1]) >= 2
                         /\ Cardinality(run(q[1], q[2])) = q[2] - Value(q[1]) + 1 } }

\* A request body and its validation.  cardId is -1 when the body has none,
\* cardIds is << >> when the body has none.
NoCard == 0 - 1
Valid == [ valid |-> TRUE, error |-> "" ]
Invalid(msg) == [ valid |-> FALSE, error |-> msg ]

validateDraw(g, i, data) ==
  IF data.source = "discard" /\ Len(g.discardPile) = 0
  THEN Invalid("Discard pile is empty")
  ELSE IF data.source = "deck" /\ Len(g.deck) = 0 /\ Len(g.discardPile) <= 1
  THEN Invalid("No cards available to draw")
  ELSE Valid

validateDiscard(g, i, data) ==
  IF data.cardId = NoCard THEN Invalid("Card ID required")
  ELSE IF ~ (data.cardId \in Range(g.players[i].hand)) THEN Invalid("Card not in hand")
  ELSE Valid

validateDrop(g, i, data) ==
  IF g.players[i].penalties > 0 THEN Invalid("Cannot drop: penalties")
  ELSE IF ~ canPlayerDrop(g.players[i], isFirstTurn(g, i)) THEN Invalid("Cannot drop with score")
  ELSE Valid

validateSpread(g, i, data) ==
  IF Len(data.cardIds) < 3 THEN Invalid("At least 3 cards required for spread")
  ELSE IF \E k \in DOMAIN data.cardIds : ~ (data.cardIds[k] \in Range(g.players[i].hand))
  THEN Invalid("One or more cards not in hand")
  ELSE IF ~ isValidSpread(data.cardIds) THEN Invalid("Invalid spread combination")
  ELSE Valid

\* isValidMove with the turn check ahead of the dropped check
isValidMoveTurnFirst(g, playerId, action, data) ==
  LET i == SeatOf(g, playerId)
  IN  IF i = 0 - 1 THEN Invalid("Player not found")
      ELSE IF g.currentPlayerIndex # i THEN Invalid("Not your turn")
      ELSE IF g.players[i].isDropped THEN Invalid("Player already dropped")
      ELSE IF action = "draw" THEN validateDraw(g, i, data)
      ELSE IF action = "discard" THEN validateDiscard(g, i, data)
      ELSE IF action = "drop" THEN validateDrop(g, i, data)
      ELSE IF action = "spread" THEN validateSpread(g, i, data)
      ELSE Invalid("Invalid action")

\* isValidMove(game, playerId, action, data)
isValidMove(g, playerId, action, data) ==
  LET i == SeatOf(g, playerId)
  IN  IF i = 0 - 1 THEN Invalid("Player not found")
      ELSE IF g.players[i].isDropped THEN Invalid("Player already dropped")
      ELSE IF g.currentPlayerIndex # i THEN Invalid("Not your turn")
      ELSE IF action = "draw" THEN validateDraw(g, i, data)
      ELSE IF action = "discard" THEN validateDiscard(g, i, data)
      ELSE IF action = "drop" THEN validateDrop(g, i, data)
      ELSE IF action = "spread" THEN validateSpread(g, i, data)
      ELSE Invalid("Invalid action")

\* ------------------------------------------------------------------------
\* utils/gameRules.js, second half: the AI agent
\* ------------------------------------------------------------------------

\* getAIPersonality: ai-1 easy, ai-2 medium, ai-3 hard, anyone else medium
getAIPersonality(aiId) ==
  IF aiId = "ai-1" THEN "easy"
  ELSE IF aiId = "ai-3" THEN "hard"
  ELSE "medium"

\* wouldCompleteSpread: some two cards of the hand plus the card are a spread
wouldCompleteSpread(hand, card) ==
  \E i \in DOMAIN hand : \E j \in DOMAIN hand :
     i < j /\ isValidSpread(<< hand[i], hand[j], card >>)

\* wouldImproveSpread: more playable spreads with the card, or one of more
\* than 3 cards
wouldImproveSpread(hand, card) ==
  LET currentSpreads == findPlayableSpreads(hand)
      newSpreads == findPlayableSpreads(Append(hand, card))
  IN  \/ Cardinality(newSpreads) > Cardinality(currentSpreads)
      \/ \E sp \in newSpreads : Cardinality(sp) > 3

\* analyzeDiscardValue, in tenths: +0.8, +0.4, +0.3 for a value <= 3, -0.2
\* for a value >= 10, clamped to [0, 1] (wouldHelpOpponents is always
\* false).  The sums of these doubles compare with the thresholds as the
\* tenths do.
analyzeDiscardValue(hand, card) ==
  LET raw == (IF wouldCompleteSpread(hand, card) THEN 8 ELSE 0)
           + (IF wouldImproveSpread(hand, card) THEN 4 ELSE 0)
           + (IF Value(card) <= 3 THEN 3 ELSE IF Value(card) >= 10 THEN 0 - 2 ELSE 0)
  IN  IF raw < 0 THEN 0 ELSE IF raw > 10 THEN 10 ELSE raw

\* decideDrawSource: the deck when the discard pile is empty, else the
\* discard pile exactly when the value of its top card exceeds the
\* threshold 0.3 / 0.5 / 0.7
decideDrawSource(g, i, difficulty) ==
  LET threshold == IF difficulty = "easy" THEN 3
                   ELSE IF difficulty = "medium" THEN 5 ELSE 7
  IN  IF Len(g.discardPile) = 0 THEN "deck"
      ELSE IF analyzeDiscardValue(g.players[i].hand, Head(g.discardPile)) > threshold
      THEN "discard"
      ELSE "deck"

\* isPartOfPotentialSpread: another card of the rank, or another card of
\* the suit whose value differs by at most 2
isPartOfPotentialSpread(card, hand) ==
  \E k \in DOMAIN hand :
     /\ hand[k] # card
     /\ \/ Rank(hand[k]) = Rank(card)
        \/ /\ Suit(hand[k]) = Suit(card)
           /\ Value(hand[k]) - Value(card) <= 2
           /\ Value(card) - Value(hand[k]) <= 2

\* couldCompleteSpread: the hand has more playable spreads with the card
\* than without it
couldCompleteSpread(card, hand) ==
  Cardinality(findPlayableSpreads(hand))
    > Cardinality(findPlayableSpreads(SelectSeq(hand, LAMBDA c : c # card)))

\* The priority of analyzeDiscardCandidates is the double
\*   value * 0.1 [- 0.5 if part of a potential spread]
\*               [- 0.7 if it could complete a spread]
\*               [- 0.3 if the difficulty is hard and value <= 5]
\* and the candidates are compared as doubles, where for instance
\* 7 * 0.1 - 0.5 > 2 * 0.1.  PriorityOrder[value][1 + a + 2b + 4c] is the
\* position of that double among all the doubles the formula can produce,
\* in increasing order (a, b, c: the three deductions, 1 when applied).
PriorityOrder ==
  << << 30, 14, 10,  3, 21,  9,  6,  0 >>,
     << 33, 18, 12,  5, 24, 10,  7,  1 >>,
     << 35, 22, 16,  6, 28, 12,  9,  2 >>,
     << 37, 24, 19,  7, 31, 15, 11,  4 >>,
     << 39, 27, 22,  9, 33, 18, 12,  5 >>,
     << 40, 32, 26, 11, 36, 23, 17,  6 >>,
     << 42, 34, 29, 13, 38, 25, 20,  8 >>,
     << 43, 35, 32, 16, 39, 28, 23,  9 >>,
     << 44, 37, 34, 19, 40, 31, 25, 11 >>,
     << 45, 39, 35, 22, 41, 33, 28, 12 >> >>

analyzeDiscardCandidates(card, hand, difficulty) ==
  PriorityOrder[Value(card)][
      1 + (IF isPartOfPotentialSpread(card, hand) THEN 1 ELSE 0)
        + (IF couldCompleteSpread(card, hand) THEN 2 ELSE 0)
        + (IF difficulty = "hard" /\ Value(card) <= 5 THEN 4 ELSE 0) ]

\* decideCardToDiscard: the only card of a one-card hand; else the first
\* card, in hand order, of the highest priority (the sort is stable)
decideCardToDiscard(hand, difficulty) ==
  IF Len(hand) = 0 THEN NoCard
  ELSE IF Len(hand) = 1 THEN hand[1]
  ELSE LET prio == [ k \in DOMAIN hand |->
                       analyzeDiscardCandidates(hand[k], hand, difficulty) ]
           best == SetMin({ k \in DOMAIN hand :
                              \A m \in DOMAIN hand : prio[m] <= prio[k] })
       IN  hand[best]

\* getRiskTolerance, in hundredths
getRiskTolerance(difficulty) ==
  IF difficulty = "easy" THEN 70
  ELSE IF difficulty = "hard" THEN 30
  ELSE 50

\* assessGameRisk, in hundredths: 0.1 per other player still in, 0.2 for
\* each other active player holding <= 3 cards and 0.3 more for <= 2,
\* 0.02 per card played (5 - hand length summed over ALL players), capped
\* at 1
assessGameRisk(g, i) ==
  LET active == { q \in Seats : ~ g.players[q].isDropped }
      others == { q \in active : q # i }
      few(q) == (IF Len(g.players[q].hand) <= 3 THEN 20 ELSE 0)
              + (IF Len(g.players[q].hand) <= 2 THEN 30 ELSE 0)
      RECURSIVE sum(_, _)
      sum(f(_), S) == IF S = {} THEN 0
                      ELSE LET q == SetMin(S) IN f(q) + sum(f, S \ { q })
      played(q) == HandSize - Len(g.players[q].hand)
      risk == (Cardinality(active) - 1) * 10 + sum(few, others)
              + sum(played, Seats) * 2
  IN  IF risk > 100 THEN 100 ELSE risk

\* makeDropDecision(score, isFirstTurn, game, aiPlayer, difficulty)
makeDropDecision(score, first, g, i, difficulty) ==
  LET riskTolerance == getRiskTolerance(difficulty)
      gameRisk == assessGameRisk(g, i)
  IN  IF score <= DropAlways THEN TRUE
      ELSE IF first /\ score = DropFirstTurn THEN TRUE
      ELSE IF score = DropRegular THEN TRUE
      ELSE IF score <= 20 THEN TRUE
      ELSE IF score <= 30 /\ gameRisk < riskTolerance THEN TRUE
      ELSE IF score <= 40 /\ 2 * gameRisk < riskTolerance THEN TRUE
      ELSE 2 * gameRisk > 3 * riskTolerance

\* shouldDrop(aiPlayer, game, difficulty)
shouldDrop(g, i, difficulty) ==
  IF g.players[i].penalties > 0 THEN FALSE
  ELSE IF ~ canPlayerDrop(g.players[i], isFirstTurn(g, i)) THEN FALSE
  ELSE makeDropDecision(calculateHandScore(g.players[i].hand),
                        isFirstTurn(g, i), g, i, difficulty)

\* ------------------------------------------------------------------------
\* controllers/gameController.js: the handlers, as functions of the
\* in-memory document.  A handler yields [game, error]; error # "" is a
\* thrown Error, which performAction catches (no save).  Timestamps other
\* than endTime, dropTime and the lastAction record are left out.
\* ------------------------------------------------------------------------

Done(g) == [ game |-> g, error |-> "" ]
Thrown(g, msg) == [ game |-> g, error |-> msg ]

\* getNextActivePlayer's loop leaving after one dropped seat
skipDroppedOnce(g, nextIndex, currentPlayerIndex) ==
  IF ~ g.players[nextIndex].isDropped THEN nextIndex
  ELSE (nextIndex + 1) % NumPlayers

\* getNextActivePlayer: seats after currentPlayerIndex, wrapping, skipping
\* dropped ones; the walk stops when it comes back to the start
RECURSIVE skipDropped(_, _, _)
skipDropped(g, nextIndex, currentPlayerIndex) ==
  IF ~ g.players[nextIndex].isDropped THEN nextIndex
  ELSE LET n == (nextIndex + 1) % NumPlayers
       IN  IF n = currentPlayerIndex THEN n
           ELSE skipDropped(g, n, currentPlayerIndex)
\* getNextActivePlayer without the skip of dropped players
getNextSeat(g, currentPlayerIndex) == (currentPlayerIndex + 1) % NumPlayers

\* getNextActivePlayer passing the turn among the AI seats only
getNextAISeat(g, currentPlayerIndex) ==
  IF currentPlayerIndex = NumPlayers - 1 THEN 1 ELSE currentPlayerIndex + 1

getNextActivePlayer(g, currentPlayerIndex) ==
  skipDropped(g, (currentPlayerIndex + 1) % NumPlayers, currentPlayerIndex)

\* handleDraw without the recomputation of the score
updateAfterDrawNoScore(g, i) ==
  LET g2 == SetP(g, i, "canDrop", canPlayerDrop(g.players[i], FALSE))
  IN  SetP(g2, i, "hasDrawn", TRUE)

\* handleDraw, lines 343-346: score, canDrop and hasDrawn of the drawer
updateAfterDraw(g, i) ==
  LET g1 == SetP(g, i, "score", calculateHandScore(g.players[i].hand))
      g2 == SetP(g1, i, "canDrop", canPlayerDrop(g1.players[i], FALSE))
  IN  SetP(g2, i, "hasDrawn", TRUE)

\* handleDraw checking for hits whichever pile the card comes from
handleDrawHitsAlways(g, i, fromDiscard, seed) ==
  IF fromDiscard
  THEN IF Len(g.discardPile) = 0 THEN Thrown(g, "Discard pile is empty")
       ELSE LET drawnCard == Head(g.discardPile)
                g1 == PutTop(g, "discardPile", Tail(g.discardPile))
                g2 == PutHand(g1, i, Append(g1.players[i].hand, drawnCard))
                g4 == applyHitPenalties(g2, drawnCard, i)
            IN  Done(updateAfterDraw(g4, i))
  ELSE LET reshuffled == reshuffleDeck(g.deck, g.discardPile, seed)
           g1 == IF needsReshuffle(g.deck, g.discardPile)
                 THEN PutTop(PutTop(g, "deck", reshuffled.deck),
                             "discardPile", reshuffled.discardPile)
                 ELSE g
       IN  IF Len(g1.deck) = 0 THEN Thrown(g1, "No cards available to draw")
           ELSE LET drawnCard == Top(g1.deck)
                    g2 == PutTop(g1, "deck", Pop(g1.deck))
                    g3 == PutHand(g2, i, Append(g2.players[i].hand, drawnCard))
                    g4 == applyHitPenalties(g3, drawnCard, i)
                IN  Done(updateAfterDraw(g4, i))

\* handleDraw with the shift() of the discard pile forgotten: the card drawn
\* from the discard pile also stays on it
handleDrawKeepingTop(g, i, fromDiscard, seed) ==
  IF fromDiscard
  THEN IF Len(g.discardPile) = 0 THEN Thrown(g, "Discard pile is empty")
       ELSE Done(updateAfterDraw(
                   PutHand(g, i, Append(g.players[i].hand, Head(g.discardPile))), i))
  ELSE LET reshuffled == reshuffleDeck(g.deck, g.discardPile, seed)
           g1 == IF needsReshuffle(g.deck, g.discardPile)
                 THEN PutTop(PutTop(g, "deck", reshuffled.deck),
                             "discardPile", reshuffled.discardPile)
                 ELSE g
       IN  IF Len(g1.deck) = 0 THEN Thrown(g1, "No cards available to draw")
           ELSE LET drawnCard == Top(g1.deck)
                    g2 == PutTop(g1, "deck", Pop(g1.deck))
                    g3 == PutHand(g2, i, Append(g2.players[i].hand, drawnCard))
                    g4 == applyHitPenalties(g3, drawnCard, i)
                IN  Done(updateAfterDraw(g4, i))

\* handleDraw(game, playerIndex, fromDiscard)
handleDraw(g, i, fromDiscard, seed) ==
  IF fromDiscard
  THEN IF Len(g.discardPile) = 0 THEN Thrown(g, "Discard pile is empty")
       ELSE LET drawnCard == Head(g.discardPile)
                g1 == PutTop(g, "discardPile", Tail(g.discardPile))
                g2 == PutHand(g1, i, Append(g1.players[i].hand, drawnCard))
            IN  Done(updateAfterDraw(g2, i))
  ELSE LET reshuffled == reshuffleDeck(g.deck, g.discardPile, seed)
           g1 == IF needsReshuffle(g.deck, g.discardPile)
                 THEN PutTop(PutTop(g, "deck", reshuffled.deck),
                             "discardPile", reshuffled.discardPile)
                 ELSE g
       IN  IF Len(g1.deck) = 0 THEN Thrown(g1, "No cards available to draw")
           ELSE LET drawnCard == Top(g1.deck)
                    g2 == PutTop(g1, "deck", Pop(g1.deck))
                    g3 == PutHand(g2, i, Append(g2.players[i].hand, drawnCard))
                    g4 == applyHitPenalties(g3, drawnCard, i)
                IN  Done(updateAfterDraw(g4, i))

\* handleDiscard clearing the counters instead of counting them down
RECURSIVE decrementPenaltiesCleared(_, _)
decrementPenaltiesCleared(g, q) ==
  IF q >= NumPlayers THEN g
  ELSE LET g1 == SetP(g, q, "penalties", 0)
           g2 == SetP(g1, q, "canDrop", canPlayerDrop(g1.players[q], FALSE))
       IN  decrementPenaltiesCleared(g2, q + 1)

\* handleDiscard, lines 375-381: every positive penalty counter goes down
\* by 1 and every player's canDrop is recomputed
RECURSIVE decrementPenalties(_, _)
decrementPenalties(g, q) ==
  IF q >= NumPlayers THEN g
  ELSE LET g1 == IF g.players[q].penalties > 0
                 THEN SetP(g, q, "penalties", g.players[q].penalties - 1)
                 ELSE g
           g2 == SetP(g1, q, "canDrop", canPlayerDrop(g1.players[q], FALSE))
       IN  decrementPenalties(g2, q + 1)

\* handleDiscard(game, playerIndex, cardId)
handleDiscard(g, i, cardId) ==
  LET cardIndex == IndexOf(g.players[i].hand, cardId)
  IN  IF cardIndex = 0 THEN Thrown(g, "Card not found in hand")
      ELSE LET g1 == PutHand(g, i, RemoveAt(g.players[i].hand, cardIndex))
               g2 == PutTop(g1, "discardPile", << cardId >> \o g1.discardPile)
               g3 == SetP(g2, i, "score", calculateHandScore(g2.players[i].hand))
               g4 == SetP(g3, i, "canDrop", canPlayerDrop(g3.players[i], FALSE))
               g5 == SetP(g4, i, "hasDrawn", FALSE)
               g6 == decrementPenalties(g5, 0)
           IN  Done(SetTop(g6, "currentPlayerIndex", getNextActivePlayer(g6, i)))

\* endGame(game, winnerId, multiplier), lines 469-472: the document part
endGame(g, winnerId, multiplier, now) ==
  LET g1 == SetTop(g, "status", "ended")
      g2 == SetTop(g1, "winner", winnerId)
      g3 == SetTop(g2, "winningMultiplier", multiplier)
  IN  SetTop(g3, "endTime", now)

\* handleDrop ending the game only when nobody is left
handleDropToTheLast(g, i, now) ==
  LET score == calculateHandScore(g.players[i].hand)
      multiplier == calculateWinningMultiplier(score, isFirstTurn(g, i))
      g1 == SetP(g, i, "score", score)
      g2 == SetP(g1, i, "isDropped", TRUE)
      activePlayers == { q \in Seats : ~ g2.players[q].isDropped }
  IN  IF Cardinality(activePlayers) < 1
      THEN Done(endGame(g2, g2.players[i].id, multiplier, now))
      ELSE Done(SetTop(g2, "currentPlayerIndex", getNextActivePlayer(g2, i)))

\* handleDrop(game, playerIndex)
handleDrop(g, i, now) ==
  LET score == calculateHandScore(g.players[i].hand)
      multiplier == calculateWinningMultiplier(score, isFirstTurn(g, i))
      g1 == SetP(g, i, "score", score)
      g2 == SetP(g1, i, "isDropped", TRUE)
      activePlayers == { q \in Seats : ~ g2.players[q].isDropped }
  IN  IF Cardinality(activePlayers) <= 1
      THEN Done(endGame(g2, g2.players[i].id, multiplier, now))
      ELSE Done(SetTop(g2, "currentPlayerIndex", getNextActivePlayer(g2, i)))

\* handleSpread laying the cards down instead of throwing
handleSpreadLaid(g, i, cardIds) ==
  Done(g)

\* handleSpread always throws
handleSpread(g, i, cardIds) ==
  Thrown(g, "Spread action not implemented in this version")

\* a cap of one iteration
SingleAITurn == NumPlayers - 3

MaxAITurns == 10

\* processAITurns: the while loop.  aiLoop is the loop test and the draw of
\* one iteration, aiDiscard its discard, aiDrop what follows the discard:
\* the drop decision, the forced drop when no human is left, and the next
\* iteration.
RECURSIVE aiLoop(_, _, _, _, _)
RECURSIVE aiDiscard(_, _, _, _, _)
RECURSIVE aiDrop(_, _, _, _, _)

aiDrop(discarded, currentPlayerIndex, maxAITurns, seed, now) ==
  IF discarded.error # "" THEN discarded
  ELSE IF discarded.game.players[currentPlayerIndex].canDrop
          /\ shouldDrop(discarded.game, currentPlayerIndex,
                        getAIPersonality(discarded.game.players[currentPlayerIndex].id))
  THEN handleDrop(discarded.game, currentPlayerIndex, now)
  ELSE IF \A q \in Seats : discarded.game.players[q].isAI \/ discarded.game.players[q].isDropped
  THEN IF \E q \in Seats : discarded.game.players[q].isAI /\ ~ discarded.game.players[q].isDropped
       THEN handleDrop(discarded.game,
                       SetMin({ q \in Seats : /\ discarded.game.players[q].isAI
                                              /\ ~ discarded.game.players[q].isDropped }),
                       now)
       ELSE discarded
  ELSE aiLoop(discarded.game, discarded.game.currentPlayerIndex, maxAITurns - 1, seed, now)

aiDiscard(drawn, currentPlayerIndex, maxAITurns, seed, now) ==
  IF drawn.error # "" THEN drawn
  ELSE aiDrop(handleDiscard(drawn.game, currentPlayerIndex,
                            decideCardToDiscard(
                              drawn.game.players[currentPlayerIndex].hand,
                              getAIPersonality(drawn.game.players[currentPlayerIndex].id))),
              currentPlayerIndex, maxAITurns, seed, now)

aiLoop(g, currentPlayerIndex, maxAITurns, seed, now) ==
  IF ~ (g.status = "playing" /\ g.players[currentPlayerIndex].isAI /\ maxAITurns > 0)
  THEN Done(g)
  ELSE IF g.players[currentPlayerIndex].isDropped
  THEN aiLoop(g, getNextActivePlayer(g, currentPlayerIndex), maxAITurns - 1, seed, now)
  ELSE aiDiscard(handleDraw(g, currentPlayerIndex,
                            decideDrawSource(g, currentPlayerIndex,
                              getAIPersonality(g.players[currentPlayerIndex].id)) = "discard",
                            seed),
                 currentPlayerIndex, maxAITurns, seed, now)

processAITurns(g, seed, now) ==
  aiLoop(g, g.currentPlayerIndex, MaxAITurns, seed, now)

\* performAction, lines 230-283: what the request does to the document it
\* loaded.  outcome "rejected" is a 4xx answer given before any mutation,
\* "thrown" the catch block (500), "apply" a document on its way to save().
Rejected(g, msg) == [ outcome |-> "rejected", error |-> msg, game |-> g ]

\* the switch on the action, lines 259-278
handleAction(g, playerIndex, req, seed, now) ==
  IF req.action = "draw" THEN handleDraw(g, playerIndex, req.source = "discard", seed)
  ELSE IF req.action = "discard" THEN handleDiscard(g, playerIndex, req.cardId)
  ELSE IF req.action = "drop" THEN handleDrop(g, playerIndex, now)
  ELSE handleSpread(g, playerIndex, req.cardIds)

\* lines 280-283: the AI turns, if the game is still playing
cascade(handled, seed, now) ==
  IF handled.error # "" THEN handled
  ELSE IF handled.game.status = "playing" THEN processAITurns(handled.game, seed, now)
  ELSE handled

\* the catch block, or the document that goes on to save()
outcomeOf(g, result) ==
  IF result.error # ""
  THEN [ outcome |-> "thrown", error |-> result.error, game |-> g ]
  ELSE [ outcome |-> "apply", error |-> "", game |-> result.game ]

\* performAction with the test of validation.valid left out: the request
\* goes on to the switch whatever isValidMove answered
checkedNever(g, req, validation, seed, now) ==
  outcomeOf(g, cascade(handleAction(g, SeatOf(g, req.user), req, seed, now), seed, now))

\* lines 247-251: a move that is not valid is answered 400 before the
\* switch on the action
checked(g, req, validation, seed, now) ==
  IF ~ validation.valid THEN Rejected(g, validation.error)
  ELSE outcomeOf(g, cascade(handleAction(g, SeatOf(g, req.user), req, seed, now), seed, now))

performAction(g, req, seed, now) ==
  IF g.status # "playing" THEN Rejected(g, "Game is not in progress")
  ELSE IF SeatOf(g, req.user) = 0 - 1 THEN Rejected(g, "Not a player in this game")
  ELSE checked(g, req, isValidMove(g, req.user, req.action, req), seed, now)

\* ------------------------------------------------------------------------
\* Persistence: Game.findById and document.save()
\* ------------------------------------------------------------------------

\* save() of a loaded document sends the paths assigned since the load and
\* nothing else.  Mongoose versions arrays: a save that changed an array
\* (here: any hand, the deck, the discard pile) is sent with the loaded
\* __v as a condition and increments __v; a save that only set fields
\* under players.<n> is sent with the __v condition and no increment.  A
\* save whose condition fails throws VersionError and writes nothing.
versionMode(dirty) ==
  IF \E d \in dirty : d[2] \in ArrayFields THEN "all"
  ELSE IF \E d \in dirty : d[1] # TopLevel THEN "where"
  ELSE "none"

saveConflicts(stored, doc) ==
  versionMode(doc.dirty) # "none" /\ stored.v # doc.v

TopFields == { "currentPlayerIndex", "deck", "discardPile", "status",
               "winner", "winningMultiplier", "endTime" }

\* save() as a write of the whole in-memory document, with no version check
saveWholeDocument(stored, doc) ==
  [ doc EXCEPT !.dirty = {}, !.v = stored.v + 1 ]

saveGame(stored, doc) ==
  IF saveConflicts(stored, doc) THEN stored
  ELSE [ f \in DOMAIN stored |->
           IF f = "players"
           THEN [ i \in Seats |->
                    [ fld \in DOMAIN stored.players[i] |->
                        IF <<i, fld>> \in doc.dirty
                        THEN doc.players[i][fld]
                        ELSE stored.players[i][fld] ] ]
           ELSE IF f = "v"
           THEN IF versionMode(doc.dirty) = "all" THEN stored.v + 1 ELSE stored.v
           ELSE IF f = "dirty" THEN {}
           ELSE IF <<TopLevel, f>> \in doc.dirty THEN doc[f]
           ELSE stored[f] ]

\* ------------------------------------------------------------------------
\* createGame
\* ------------------------------------------------------------------------

\* The shuffled decks a game is created from: createDeck returns some
\* permutation of the 40 cards, and the model draws it from this list.
Decks ==
  << << 4, 8, 13, 32, 24, 39, 36, 33, 30, 14, 28, 25, 26, 10, 31, 3, 35, 17, 37, 29,
        34, 38, 18, 20, 11, 1, 9, 2, 12, 27, 5, 21, 22, 7, 19, 23, 15, 6, 16, 0 >>,
     << 15, 4, 35, 14, 38, 22, 2, 3, 29, 36, 10, 21, 13, 34, 31, 8, 19, 17, 20, 12,
        18, 28, 7, 30, 23, 39, 24, 0, 25, 37, 16, 11, 33, 32, 9, 1, 26, 5, 27, 6 >> >>

AIIds == { "ai-1", "ai-2", "ai-3" }
\* winnerId.startsWith('ai-')
IsAIId(id) == id \in AIIds

newPlayer(id, ai, hand) ==
  [ id |-> id, isAI |-> ai, hand |-> hand, isDropped |-> FALSE,
    canDrop |-> canPlayerDrop([ hand |-> hand, penalties |-> 0 ], TRUE),
    score |-> calculateHandScore(hand), penalties |-> 0, hitCount |-> 0,
    hasDrawn |-> FALSE ]

\* createGame, lines 36-100: the document that game.save() inserts
newGame(deck, stake) ==
  LET dealt == dealCards(deck)
      ids == [ j \in Seats |-> IF j = 0 THEN "user"
                               ELSE IF j = 1 THEN "ai-1"
                               ELSE IF j = 2 THEN "ai-2" ELSE "ai-3" ]
  IN  [ players |-> [ j \in Seats |-> newPlayer(ids[j], j # 0, dealt.hands[j]) ],
        currentPlayerIndex |-> 0,
        deck |-> Pop(dealt.deck),
        discardPile |-> << Top(dealt.deck) >>,
        status |-> "playing",
        stake |-> stake,
        pot |-> stake * NumPlayers,
        winner |-> "",
        winningMultiplier |-> 1,
        endTime |-> 0,
        v |-> 0,
        dirty |-> {} ]

NoGame == [ status |-> "none" ]

\* ------------------------------------------------------------------------
\* The state
\* ------------------------------------------------------------------------

VARIABLES
  db,      \* the stored game document, NoGame before createGame
  users,   \* the account of the one human user
  table,   \* the Table document of the game's stake
  reqs,    \* per slot: the performAction request being served
  nreq,    \* number of requests applied so far (also the clock)
  wild,    \* how many of them were not the expected play
  audit,   \* history: how often each end-game side effect was applied
  probe    \* the call of a rules function under examination (rules specifications)

vars == << db, users, table, reqs, nreq, wild, audit, probe >>

MaxRequests == 8
MaxWild == 2
NumClients == 2
NumSeeds == 2
Stake == 5

Clients == 1 .. NumClients
Seeds == 1 .. NumSeeds
InitialBalances == { Stake - 1, Stake }

\* A slot is idle, holds a request between its load and its save (pc
\* "endGame" or "save", with the in-memory document), or holds the answer
\* of a request that was refused (pc "rejected" or "thrown")
Idle == [ pc |-> "idle" ]
NoProbe == [ op |-> "none" ]
InFlight == { c \in Clients : reqs[c].pc \in { "endGame", "save" } }
Answered == { c \in Clients : reqs[c].pc \in { "rejected", "thrown" } }

Init ==
  /\ db = NoGame
  /\ users \in { [ balance |-> b, gamesPlayed |-> 0, gamesWon |-> 0,
                   totalWinnings |-> 0, totalWagered |-> 0 ] : b \in InitialBalances }
  /\ table = [ currentPlayers |-> 0, activeGames |-> {} ]
  /\ reqs = [ c \in Clients |-> Idle ]
  /\ nreq = 0
  /\ wild = 0
  /\ audit = [ credits |-> 0, statBumps |-> 0, seatReleases |-> 0 ]
  /\ probe = NoProbe

\* createGame: refused when the balance is below the stake; else the stake
\* is debited, the game stored and the table seat taken
CreateGame(deck, stake) ==
  /\ db = NoGame
  /\ users.balance >= stake
  /\ users' = [ users EXCEPT !.balance = @ - stake ]
  /\ db' = newGame(deck, stake)
  /\ table' = [ currentPlayers |-> table.currentPlayers + 1,
                activeGames |-> table.activeGames \cup { "game" } ]
  /\ UNCHANGED << reqs, nreq, wild, audit, probe >>

\* ------------------------------------------------------------------------
\* performAction requests
\* ------------------------------------------------------------------------

Body(user, action, source, cardId, cardIds) ==
  [ user |-> user, action |-> action, source |-> source,
    cardId |-> cardId, cardIds |-> cardIds ]

\* The request bodies the environment sends in a state: a draw from either
\* source or with none named, a discard of the first or the last card of
\* the user's hand, of a card that is not in the hand and without a card
\* id, a drop, a spread of the first three cards, of one card named three
\* times, of cards one of which is not in the hand and of no cards, an
\* unknown action, and a draw by a user who is not in the game.
Inputs(g) ==
  IF g = NoGame THEN {} ELSE
  LET hand == g.players[0].hand
      n == Len(hand)
      absent == CHOOSE c \in Cards : ~ (c \in Range(hand))
  IN  { Body("user", "draw", src, NoCard, << >>) : src \in { "deck", "discard", "none" } }
      \cup { Body("user", "discard", "none", c, << >>) :
               c \in { absent, NoCard } \cup (IF n > 0 THEN { hand[1], hand[n] } ELSE {}) }
      \cup { Body("user", "drop", "none", NoCard, << >>) }
      \cup { Body("user", "spread", "none", NoCard, ids) :
               ids \in { << >> }
                         \cup (IF n > 0 THEN { << hand[1], hand[1], hand[1] >>,
                                                << hand[1], absent, hand[n] >> } ELSE {})
                               \cup (IF n >= 3 THEN { SubSeq(hand, 1, 3) } ELSE {}) }
      \cup { Body("user", "bogus", "none", NoCard, << >>) }
      \cup { Body("stranger", "draw", "deck", NoCard, << >>) }

\* The expected play of the user: draw from the deck, then discard the
\* card just drawn
Expected(g, req) ==
  /\ req.user = "user"
  /\ IF g.players[0].hasDrawn
     THEN req.action = "discard" /\ Len(g.players[0].hand) > 0
          /\ req.cardId = Top(g.players[0].hand)
     ELSE req.action = "draw" /\ req.source = "deck"

\* endGame, lines 474-508: the winner is credited pot * multiplier when it
\* is not an AI, every human player gets gamesPlayed + 1 and
\* totalWagered + stake, the table loses the seat and the game
\* endGame crediting the pot without the multiplier
endGameUsersPotOnly(u, g) ==
  LET u1 == IF ~ IsAIId(g.winner)
            THEN [ u EXCEPT !.balance = @ + g.pot, !.gamesWon = @ + 1,
                            !.totalWinnings = @ + g.pot ]
            ELSE u
  IN  [ u1 EXCEPT !.gamesPlayed = @ + 1, !.totalWagered = @ + g.stake ]

endGameUsers(u, g) ==
  LET winnings == g.pot * g.winningMultiplier
      u1 == IF ~ IsAIId(g.winner)
            THEN [ u EXCEPT !.balance = @ + winnings, !.gamesWon = @ + 1,
                            !.totalWinnings = @ + winnings ]
            ELSE u
  IN  [ u1 EXCEPT !.gamesPlayed = @ + 1, !.totalWagered = @ + g.stake ]

endGameTable(t) ==
  [ currentPlayers |-> IF t.currentPlayers - 1 > 0 THEN t.currentPlayers - 1 ELSE 0,
    activeGames |-> t.activeGames \ { "game" } ]

endGameAudit(a, g) ==
  [ credits |-> a.credits + (IF IsAIId(g.winner) THEN 0 ELSE 1),
    statBumps |-> a.statBumps + 1,
    seatReleases |-> a.seatReleases + 1 ]

\* performAction's checks alone: the request gets past them
Accepts(g, req) ==
  /\ g.status = "playing"
  /\ SeatOf(g, req.user) # 0 - 1
  /\ isValidMove(g, req.user, req.action, req).valid

\* The budget of requests: a refused request is free, and so is the
\* expected play with nothing in flight; any other request counts as
\* unexpected
Free(req) == Expected(db, req) /\ InFlight = {}
CanSend(req) ==
  \/ ~ Accepts(db, req)
  \/ nreq < MaxRequests /\ (Free(req) \/ wild < MaxWild)

\* The seeds that matter: a request and its cascade draw at most
\* NumPlayers cards, so a deck longer than this is not reshuffled
SeedsFor(g) ==
  IF g # NoGame /\ Len(g.deck) <= ReshuffleThreshold + NumPlayers THEN Seeds ELSE { 1 }

Taken(c, req, res) ==
  IF res.outcome # "apply"
  THEN /\ reqs' = [ reqs EXCEPT ![c] =
                      [ pc |-> res.outcome, req |-> req, error |-> res.error ] ]
       /\ UNCHANGED << db, users, table, nreq, wild, audit, probe >>
  ELSE /\ nreq' = nreq + 1
       /\ wild' = IF Free(req) THEN wild ELSE wild + 1
       /\ reqs' = [ reqs EXCEPT ![c] =
                      [ pc |-> IF res.game.status = "ended" THEN "endGame" ELSE "save",
                        req |-> req, doc |-> res.game ] ]
       /\ UNCHANGED << db, users, table, audit, probe >>

\* performAction up to the first shared write: findById, the checks, the
\* action and the AI cascade, all on the private in-memory document.  A
\* rejected request and a thrown one are answered here.  The request
\* takes the first free slot (the slots are interchangeable).
Receive(c, req, seed) ==
  /\ db # NoGame
  /\ Answered = {}
  /\ reqs[c].pc = "idle"
  /\ \A d \in Clients : d < c => reqs[d].pc # "idle"
  /\ CanSend(req)
  /\ Taken(c, req, performAction(db, req, seed, nreq + 1))

\* The 4xx or 500 answer of a refused request; it is sent in the same
\* tick as the refusal, so nothing else runs before it
Reply(c) ==
  /\ c \in Answered
  /\ reqs' = [ reqs EXCEPT ![c] = Idle ]
  /\ UNCHANGED << db, users, table, nreq, wild, audit, probe >>

\* endGame's writes to the User and Table collections (awaited inside
\* handleDrop, before the game is saved)
EndGameEffects(c) ==
  /\ Answered = {}
  /\ reqs[c].pc = "endGame"
  /\ users' = endGameUsers(users, reqs[c].doc)
  /\ table' = endGameTable(table)
  /\ audit' = endGameAudit(audit, reqs[c].doc)
  /\ reqs' = [ reqs EXCEPT ![c].pc = "save" ]
  /\ UNCHANGED << db, nreq, wild, probe >>

\* await updatedGame.save()
Save(c) ==
  /\ Answered = {}
  /\ reqs[c].pc = "save"
  /\ db' = saveGame(db, reqs[c].doc)
  /\ reqs' = [ reqs EXCEPT ![c] = Idle ]
  /\ UNCHANGED << users, table, nreq, wild, audit, probe >>

\* joinGame: a game that is not 'waiting' answers 'Game has already
\* started'; a user already seated gets the game back unchanged; else the
\* first AI seat is handed to the user, who keeps the AI's hand.  (The
\* account of a joining user other than the creator is not part of the
\* state.)
seatUser(g, q, userId) ==
  [ g EXCEPT
      !.players[q] = [ @ EXCEPT !.id = userId, !.isAI = FALSE, !.isDropped = FALSE,
                                !.canDrop = canPlayerDrop(@, FALSE),
                                !.score = calculateHandScore(@.hand),
                                !.penalties = 0, !.hitCount = 0 ],
      !.dirty = @ \cup { << q, f >> : f \in DOMAIN g.players[q] } ]

joinGame(g, userId) ==
  IF g.status # "waiting" THEN Rejected(g, "Game has already started")
  ELSE IF SeatOf(g, userId) # 0 - 1 THEN Rejected(g, "")
  ELSE IF \A q \in Seats : ~ g.players[q].isAI THEN Rejected(g, "Game is full")
  ELSE [ outcome |-> "apply", error |-> "",
         game |-> seatUser(g, SetMin({ q \in Seats : g.players[q].isAI }), userId) ]

Joined(res) ==
  IF res.outcome # "apply" THEN UNCHANGED vars
  ELSE /\ db' = saveGame(db, res.game)
       /\ UNCHANGED << users, table, reqs, nreq, wild, audit, probe >>

JoinGame(userId) ==
  /\ db # NoGame
  /\ Answered = {}
  /\ Joined(joinGame(db, userId))

Next ==
  \/ \E d \in DOMAIN Decks : CreateGame(Decks[d], Stake)
  \/ \E userId \in { "user", "stranger" } : JoinGame(userId)
  \/ \E c \in Clients : \E req \in Inputs(db) : \E seed \in SeedsFor(db) : Receive(c, req, seed)
  \/ \E c \in Clients : Reply(c)
  \/ \E c \in Clients : EndGameEffects(c)
  \/ \E c \in Clients : Save(c)

Spec == Init /\ [][Next]_vars

\* The same requests served one at a time: a request is loaded only when
\* no other is between its load and its save
NextSeq ==
  \/ \E d \in DOMAIN Decks : CreateGame(Decks[d], Stake)
  \/ \E userId \in { "user", "stranger" } : JoinGame(userId)
  \/ /\ InFlight = {}
     /\ \E c \in Clients : \E req \in Inputs(db) : \E seed \in SeedsFor(db) : Receive(c, req, seed)
  \/ \E c \in Clients : Reply(c)
  \/ \E c \in Clients : EndGameEffects(c)
  \/ \E c \in Clients : Save(c)

SpecSeq == Init /\ [][NextSeq]_vars

\* ------------------------------------------------------------------------
\* Properties
\* ------------------------------------------------------------------------

\* The cards of a game document, zone after zone
Zones(g) ==
  g.players[0].hand \o g.players[1].hand \o g.players[2].hand \o g.players[3].hand
    \o g.deck \o g.discardPile

Conserved(g) == Len(Zones(g)) = NumCards /\ Range(Zones(g)) = Cards

\* C1: card conservation.  With the requests served one at a time, the
\* four hands, the deck and the discard pile of the stored game, and of
\* every document on its way to save(), hold 40 cards and every card id
\* exactly once.
C1_CardConservation ==
  /\ db # NoGame => Conserved(db)
  /\ \A c \in InFlight : Conserved(reqs[c].doc)

\* A reshuffle has happened: the stored deck holds a card that was dealt or
\* turned up when the game was created, whichever shuffle it was created
\* from (such a card reaches the deck only from the discard pile)
C1_Witness ==
  /\ db # NoGame
  /\ \A d \in DOMAIN Decks :
        ~ (Range(db.deck) \subseteq Range(SubSeq(Decks[d], 1, NumCards - HandSize * NumPlayers - 1)))

\* The slot c takes in a request that goes on to save()
Applies(c) == reqs[c].pc = "idle" /\ reqs'[c].pc \in { "endGame", "save" }

\* C2: turn structure.  A draw is applied only to a player who has not
\* drawn in this turn (who holds 5 cards), a discard or a drop only to one
\* who has (who holds 6).
C2_TurnStructure ==
  [][ \A c \in Clients :
        Applies(c) =>
          /\ reqs'[c].req.action = "draw"
                => Len(db.players[SeatOf(db, reqs'[c].req.user)].hand) = HandSize
          /\ reqs'[c].req.action \in { "discard", "drop" }
                => Len(db.players[SeatOf(db, reqs'[c].req.user)].hand) = HandSize + 1 ]_vars

\* C3: a request that fails performAction's checks is answered
\* 'rejected' in a step that leaves the stored game, the account and the
\* table as they are, with no document (so no AI turn) computed; and the
\* stored game, the account and the table change only in createGame or in
\* a step of a request that passed the checks when it loaded the game.
C3_RejectedChangesNothing ==
  [][ /\ \A c \in Clients :
           reqs[c].pc = "idle" /\ reqs'[c].pc # "idle" /\ ~ Accepts(db, reqs'[c].req)
             => /\ reqs'[c].pc = "rejected"
                /\ db' = db /\ users' = users /\ table' = table /\ audit' = audit
      /\ (db' # db \/ users' # users \/ table' # table)
           => \/ db = NoGame
              \/ \E c \in InFlight : reqs'[c] # reqs[c] ]_vars

\* Requests have been applied and a discard of a card that is not in the
\* hand has just been refused
C3_Witness ==
  /\ nreq >= 2
  /\ \E c \in Clients : reqs[c].pc = "rejected" /\ reqs[c].error = "Card not in hand"

\* The player ids and request bodies isValidMove is asked about
PlayerIds == { "user", "stranger" } \cup AIIds
Moves(g) ==
  { [ r EXCEPT !.user = id ] : r \in Inputs(g), id \in PlayerIds }

\* What the claim says isValidMove answers (verdict) to a move of seat i
Ownership(g, i, verdict) ==
  IF i = 0 - 1 THEN verdict = Invalid("Player not found")
  ELSE IF g.players[i].isDropped THEN verdict = Invalid("Player already dropped")
  ELSE IF g.currentPlayerIndex # i THEN verdict = Invalid("Not your turn")
  ELSE verdict.error \notin { "Player not found", "Player already dropped", "Not your turn" }

C5_MutualExclusion == Cardinality(InFlight) <= 1

\* C6: the end-game side effects happen at most once: one credit of the
\* winner, one bump of gamesPlayed / totalWagered, one release of the
\* table seat.
C6_EffectsAtMostOnce ==
  audit.credits <= 1 /\ audit.statBumps <= 1 /\ audit.seatReleases <= 1

\* C7: the stored status only moves forward: an ended game stays ended, a
\* playing game is never stored as waiting.
C7_StatusMonotonic ==
  [][ db # NoGame =>
        /\ db' # NoGame
        /\ db.status = "ended" => db'.status = "ended"
        /\ db.status = "playing" => db'.status \in { "playing", "ended" } ]_vars

\* The stored game has ended while a request that loaded it as playing is
\* about to save its document
C7_Witness ==
  /\ db # NoGame /\ db.status = "ended"
  /\ \E c \in Clients : reqs[c].pc = "save" /\ reqs[c].doc.status = "playing"

\* C8: an ended game is immutable: no step changes the stored document
\* of a game whose status is 'ended'.
C8_EndedImmutable ==
  [][ db # NoGame /\ db.status = "ended" => db' = db ]_vars

\* C9: the stored game is never 'playing' with an AI, or a dropped
\* player, as the player to move.  It is stated here for the games in
\* which a human is still in, which the claim implies (the games with no
\* human left are the subject of C10).
C9_HumanToMove ==
  (/\ db # NoGame /\ db.status = "playing"
   /\ \E q \in Seats : ~ db.players[q].isAI /\ ~ db.players[q].isDropped)
  => /\ ~ db.players[db.currentPlayerIndex].isAI
     /\ ~ db.players[db.currentPlayerIndex].isDropped

\* C10: the stored game is never 'playing' while every human player is
\* dropped.
C10_EndsWhenHumansDropped ==
  db # NoGame /\ db.status = "playing" =>
    \E q \in Seats : ~ db.players[q].isAI /\ ~ db.players[q].isDropped


\* The players of a game document who have not dropped
Active(g) == { q \in Seats : ~ g.players[q].isDropped }

\* C11: in a stored game that has ended with exactly one player not
\* dropped, the winner is that player; the winner is a dropped player only
\* when no player is left.
C11_WinnerIsRemaining ==
  db # NoGame /\ db.status = "ended" =>
    /\ \A q \in Active(db) : Active(db) = { q } => db.winner = db.players[q].id
    /\ (\E q \in Seats : db.players[q].id = db.winner /\ db.players[q].isDropped)
          => Active(db) = {}


\* The step in which the request of slot c applies endGame's side effects
Settles(c) == reqs[c].pc = "endGame" /\ reqs'[c].pc = "save"

\* C12: payout.  The document whose end-game effects are applied has
\* status 'ended' and pot = 4 x stake; the step raises the balance by
\* pot x winningMultiplier when the winner is the human (60 for stake 5
\* and a dropping score of at most 11) and leaves it alone when the winner
\* is an AI, and the game leaves the table's active games.
C12_Payout ==
  [][ \A c \in Clients :
        Settles(c) =>
          LET g == reqs[c].doc
              winnings == NumPlayers * g.stake * g.winningMultiplier
          IN  /\ g.status = "ended"
              /\ g.pot = NumPlayers * g.stake
              /\ users'.balance = users.balance + (IF IsAIId(g.winner) THEN 0 ELSE winnings)
              /\ (g.winner = "user" /\ g.players[0].score <= DropAlways /\ g.stake = 5)
                    => users'.balance = users.balance + 60
              /\ ~ ("game" \in table'.activeGames) ]_vars

\* The user's drop with a score of at most 11 has ended the game, the
\* game is stored as ended and the account holds the 60 it won
C12_Witness ==
  /\ db # NoGame /\ db.status = "ended" /\ db.winner = "user"
  /\ db.players[0].score <= DropAlways /\ db.winningMultiplier = 3
  /\ users.balance = 60 /\ table.activeGames = {}


\* ------------------------------------------------------------------------
\* The rules functions on their own: a call is drawn from bounded sets of
\* arguments (probe), and one step makes the call and keeps what it
\* returned.  No game is created in these specifications.
\* ------------------------------------------------------------------------

RECURSIVE SeqOfSet(_)
SeqOfSet(S) ==
  IF S = {} THEN << >> ELSE << SetMin(S) >> \o SeqOfSet(S \ { SetMin(S) })

\* Hands of up to HandSize + 1 cards out of two aces, a 2, a 7 and six
\* cards that count 10: their scores lie between 0 and 60
ProbePool == { 0, 10, 1, 6, 7, 8, 9, 17, 18, 19 }
ProbeHands ==
  { SeqOfSet(S) : S \in { T \in SUBSET ProbePool : Cardinality(T) <= HandSize + 1 } }
MaxPenalties == 2

NoRequests ==
  /\ db = NoGame
  /\ users = [ balance |-> Stake, gamesPlayed |-> 0, gamesWon |-> 0,
                totalWinnings |-> 0, totalWagered |-> 0 ]
  /\ table = [ currentPlayers |-> 0, activeGames |-> {} ]
  /\ reqs = [ c \in Clients |-> Idle ]
  /\ nreq = 0
  /\ wild = 0
  /\ audit = [ credits |-> 0, statBumps |-> 0, seatReleases |-> 0 ]

DropCalls ==
  { [ op |-> "canPlayerDrop", player |-> [ hand |-> h, penalties |-> n ],
      isFirstTurn |-> f, done |-> FALSE, out |-> FALSE ] :
      h \in ProbeHands, n \in 0 .. MaxPenalties, f \in BOOLEAN }

CallCanPlayerDrop ==
  /\ probe.op = "canPlayerDrop" /\ ~ probe.done
  /\ probe' = [ probe EXCEPT !.done = TRUE,
                              !.out = canPlayerDrop(probe.player, probe.isFirstTurn) ]
  /\ UNCHANGED << db, users, table, reqs, nreq, wild, audit >>

InitDrop == NoRequests /\ probe \in DropCalls
SpecDrop == InitDrop /\ [][CallCanPlayerDrop]_vars

\* C13: drop eligibility.  canPlayerDrop answers false for a player with
\* penalties; for one without it answers true exactly when the score is at
\* most 11, or it is the first turn and the score is at most 41, or the
\* score is at most 50: so 11 and 50 can be dropped and 51 or more cannot.
C13_DropEligibility ==
  (probe.op = "canPlayerDrop" /\ probe.done) =>
    LET score == calculateHandScore(probe.player.hand)
    IN  /\ probe.player.penalties > 0 => ~ probe.out
        /\ probe.player.penalties = 0 =>
              (probe.out <=> \/ score <= 11
                             \/ probe.isFirstTurn /\ score <= 41
                             \/ score <= 50)
        /\ (probe.player.penalties = 0 /\ score \in { 11, 50 }) => probe.out
        /\ score >= 51 => ~ probe.out

\* A hand of exactly 50 without penalties was found droppable
C13_Witness ==
  /\ probe.op = "canPlayerDrop" /\ probe.done /\ probe.out
  /\ probe.player.penalties = 0 /\ ~ probe.isFirstTurn
  /\ calculateHandScore(probe.player.hand) = 50


\* C14: a score of 12 cannot be dropped once the first turn is over.  No
\* drop is applied for a player without penalties whose hand scores 12
\* while another player has dropped.
C14_TwelveNotDroppable ==
  [][ \A c \in Clients :
        (Applies(c) /\ reqs'[c].req.action = "drop") =>
          LET i == SeatOf(db, reqs'[c].req.user)
          IN  ~ /\ db.players[i].penalties = 0
                /\ calculateHandScore(db.players[i].hand) = 12
                /\ \E r \in Seats \ { i } : db.players[r].isDropped ]_vars


\* calculateWinningMultiplier on its own, next to the games played with the
\* requests served one at a time
MultiplierCalls ==
  { [ op |-> "calculateWinningMultiplier", score |-> calculateHandScore(h),
      isFirstTurn |-> f, done |-> FALSE, out |-> 0 ] :
      h \in ProbeHands, f \in BOOLEAN }

CallCalculateWinningMultiplier ==
  /\ probe.op = "calculateWinningMultiplier" /\ ~ probe.done
  /\ probe' = [ probe EXCEPT !.done = TRUE,
                              !.out = calculateWinningMultiplier(probe.score, probe.isFirstTurn) ]
  /\ UNCHANGED << db, users, table, reqs, nreq, wild, audit >>

InitMultiplier == Init \/ (NoRequests /\ probe \in MultiplierCalls)
NextMultiplier ==
  \/ probe = NoProbe /\ NextSeq
  \/ CallCalculateWinningMultiplier
SpecMultiplier == InitMultiplier /\ [][NextMultiplier]_vars

\* The multiplier the claim gives for a score
ClaimedMultiplier(score, first) ==
  IF score <= 11 THEN 3
  ELSE IF first /\ score = 41 THEN 3
  ELSE IF score = 50 THEN 2
  ELSE 1

\* The multiplier the claim gives for the winner of an ended game document
ClaimedFor(g) ==
  LET w == SeatOf(g, g.winner)
  IN  ClaimedMultiplier(calculateHandScore(g.players[w].hand),
                        \A q \in Seats \ { w } : ~ g.players[q].isDropped)

\* C15: winning multiplier.  calculateWinningMultiplier returns 3 for a
\* score of at most 11, 3 for 41 on the first turn, 2 for 50 and 1
\* otherwise; the winningMultiplier of a stored game, and of a document on
\* its way to save(), is 1, 2 or 3, and in an ended game it is that
\* function of the score of the hand the winner dropped with.
C15_Multiplier ==
  /\ (probe.op = "calculateWinningMultiplier" /\ probe.done)
        => probe.out = ClaimedMultiplier(probe.score, probe.isFirstTurn)
  /\ db # NoGame =>
        /\ db.winningMultiplier \in { 1, 2, 3 }
        /\ db.status = "ended" => db.winningMultiplier = ClaimedFor(db)
  /\ \A c \in InFlight :
        /\ reqs[c].doc.winningMultiplier \in { 1, 2, 3 }
        /\ reqs[c].doc.status = "ended"
              => reqs[c].doc.winningMultiplier = ClaimedFor(reqs[c].doc)

\* A game has been stored as ended at three times the pot, its winner
\* having dropped with a hand of at most 11
C15_Witness ==
  /\ db # NoGame /\ db.status = "ended" /\ db.winningMultiplier = 3
  /\ calculateHandScore(db.players[SeatOf(db, db.winner)].hand) <= 11


\* The slot c takes in a draw from the deck that goes on to save().  (No
\* AI plays in such a request: the drawer is still the player to move.)
DrawsFromDeck(c) ==
  Applies(c) /\ reqs'[c].req.action = "draw" /\ reqs'[c].req.source # "discard"

\* The card hits a spread found in this hand
HitsOwnSpread(card, hand) ==
  \E sp \in findExistingSpreads(hand) : cardHitsSpread(card, sp)

\* C16: hit-penalty target.  A draw from the deck changes the penalties
\* and hitCount of a player other than the drawer exactly when the card
\* drawn hits a spread in that player's own hand, and never those of the
\* drawer.
C16_HitTarget ==
  [][ \A c \in Clients :
        DrawsFromDeck(c) =>
          LET i == SeatOf(db, reqs'[c].req.user)
              after == reqs'[c].doc.players
              card == Top(after[i].hand)
              changed(q) == \/ after[q].penalties # db.players[q].penalties
                            \/ after[q].hitCount # db.players[q].hitCount
          IN  /\ ~ changed(i)
              /\ \A q \in Seats \ { i } :
                    changed(q) <=> HitsOwnSpread(card, db.players[q].hand) ]_vars


\* C17: hit-penalty escalation.  A player other than the drawer whose own
\* spread is hit by the card drawn from the deck gets penalties 2 plus the
\* hits suffered before (hitCount) and then one more hit on hitCount; the
\* stored hitCount of a player never goes down.
C17_Escalation ==
  [][ /\ \A c \in Clients :
           DrawsFromDeck(c) =>
             LET i == SeatOf(db, reqs'[c].req.user)
                 after == reqs'[c].doc.players
                 card == Top(after[i].hand)
             IN  \A q \in Seats \ { i } :
                   HitsOwnSpread(card, db.players[q].hand) =>
                     /\ after[q].penalties = 2 + db.players[q].hitCount
                     /\ after[q].hitCount = db.players[q].hitCount + 1
      /\ (db # NoGame /\ db' # NoGame) =>
            \A q \in Seats : db'.players[q].hitCount >= db.players[q].hitCount ]_vars


\* No player's counter is lower in the document `after` than in `before`
NotLowered(before, after) ==
  \A q \in Seats : after.players[q].penalties >= before.players[q].penalties

\* C18: penalty counters.  No counter is negative, in the stored game or
\* in a document on its way to save().  In every stored game that is being
\* played, a discard of any card of the player to move takes exactly 1
\* off every positive counter, the discarder's included, and leaves the
\* zero ones at zero, while a draw from either source and a drop lower no
\* counter.
C18_PenaltyCounters ==
  /\ \A c \in InFlight : \A q \in Seats : reqs[c].doc.players[q].penalties >= 0
  /\ db # NoGame => \A q \in Seats : db.players[q].penalties >= 0
  /\ (db # NoGame /\ db.status = "playing") =>
        LET i == db.currentPlayerIndex
        IN  /\ \A card \in Range(db.players[i].hand) :
                  \A q \in Seats :
                    handleDiscard(db, i, card).game.players[q].penalties
                      = IF db.players[q].penalties > 0
                        THEN db.players[q].penalties - 1 ELSE 0
            /\ \A fromDiscard \in BOOLEAN :
                  NotLowered(db, handleDraw(db, i, fromDiscard, 1).game)
            /\ NotLowered(db, handleDrop(db, i, nreq + 1).game)

\* A discard on its way to save() has lowered the counter of a player
\* while another player's counter was zero already
C18_Witness ==
  /\ db # NoGame
  /\ \E c \in InFlight :
        /\ reqs[c].req.action = "discard"
        /\ \E q \in Seats : /\ db.players[q].penalties >= 2
                              /\ reqs[c].doc.players[q].penalties < db.players[q].penalties
        /\ \E q \in Seats : db.players[q].penalties = 0


\* C19: a dropped player is frozen.  The hand, the score and the penalties
\* of a player stored as dropped are the same in every later stored state
\* of the game.
C19_DroppedFrozen ==
  [][ db # NoGame =>
        \A q \in Seats :
          db.players[q].isDropped =>
            /\ db'.players[q].hand = db.players[q].hand
            /\ db'.players[q].score = db.players[q].score
            /\ db'.players[q].penalties = db.players[q].penalties ]_vars


\* C20: in a stored game that is being played, currentPlayerIndex is a
\* seat, and its player is not dropped unless every other player is.
C20_CurrentPlayerActive ==
  (db # NoGame /\ db.status = "playing") =>
    /\ db.currentPlayerIndex \in 0 .. 3
    /\ db.players[db.currentPlayerIndex].isDropped
          => \A q \in Seats \ { db.currentPlayerIndex } : db.players[q].isDropped

\* The game is on and the turn has passed over a dropped player: the seat
\* before the player to move is dropped
C20_Witness ==
  /\ db # NoGame /\ db.status = "playing" /\ nreq >= 2
  /\ db.players[(db.currentPlayerIndex + NumPlayers - 1) % NumPlayers].isDropped
  /\ ~ db.players[db.currentPlayerIndex].isDropped


\* The number of cards in the hands of the players who have not dropped
RECURSIVE ActiveHandCards(_, _)
ActiveHandCards(g, q) ==
  IF q >= NumPlayers THEN 0
  ELSE (IF g.players[q].isDropped THEN 0 ELSE Len(g.players[q].hand))
       + ActiveHandCards(g, q + 1)

\* C21: while the stored game is being played, the hands of the players
\* who have not dropped, the deck and the discard pile hold 40 cards
\* together.
C21_ActiveCardCount ==
  (db # NoGame /\ db.status = "playing") =>
    ActiveHandCards(db, 0) + Len(db.deck) + Len(db.discardPile) = 40


\* The value the claim gives a card, and the score it gives a hand
ClaimedValue(c) == IF c % 10 <= 6 THEN (c % 10) + 1 ELSE 10
RECURSIVE ClaimedScore(_)
ClaimedScore(hand) ==
  IF hand = << >> THEN 0 ELSE ClaimedValue(Head(hand)) + ClaimedScore(Tail(hand))

\* C22: in every stored game the score of each player, dropped or not, is
\* the sum of the values of the cards in that player's hand.
C22_ScoreIsHandSum ==
  db # NoGame =>
    \A q \in Seats : db.players[q].score = ClaimedScore(db.players[q].hand)

\* Stored after draws and discards: a player has dropped, and the user
\* holds a sixth card and no longer the hand that was dealt
C22_Witness ==
  /\ db # NoGame /\ nreq >= 3
  /\ \E q \in Seats : db.players[q].isDropped
  /\ Len(db.players[0].hand) = HandSize + 1
  /\ \A d \in DOMAIN Decks :
        SubSeq(db.players[0].hand, 1, HandSize) # dealCards(Decks[d]).hands[0]


\* getNextActivePlayer on its own: every seat and every pattern of dropped
\* seats
NextPlayerCalls ==
  { [ op |-> "getNextActivePlayer",
      game |-> [ players |-> [ q \in Seats |-> [ isDropped |-> d[q] ] ] ],
      currentPlayerIndex |-> c, done |-> FALSE, out |-> 0 ] :
      d \in [ Seats -> BOOLEAN ], c \in Seats }

CallGetNextActivePlayer ==
  /\ probe.op = "getNextActivePlayer" /\ ~ probe.done
  /\ probe' = [ probe EXCEPT !.done = TRUE,
                              !.out = getNextActivePlayer(probe.game, probe.currentPlayerIndex) ]
  /\ UNCHANGED << db, users, table, reqs, nreq, wild, audit >>

InitNextPlayer == NoRequests /\ probe \in NextPlayerCalls
SpecNextPlayer == InitNextPlayer /\ [][CallGetNextActivePlayer]_vars

\* The seat the claim gives: the first of c+1, c+2, c+3 (modulo 4) that is
\* not dropped, and c when all three are
ClaimedNext(g, c) ==
  LET steps == { k \in 1 .. 3 : ~ g.players[(c + k) % 4].isDropped }
  IN  IF steps = {} THEN c ELSE (c + SetMin(steps)) % 4

\* C23: next-seat selection.  getNextActivePlayer(c) returns the first
\* seat that is not dropped among c+1, c+2, c+3 taken modulo 4, and c
\* itself when those three are all dropped.
C23_NextSeat ==
  (probe.op = "getNextActivePlayer" /\ probe.done) =>
    /\ probe.out \in 0 .. 3
    /\ probe.out = ClaimedNext(probe.game, probe.currentPlayerIndex)

\* Asked for the seat after 0 with seat 1 alone dropped, it answered 2
C23_Witness ==
  /\ probe.op = "getNextActivePlayer" /\ probe.done
  /\ probe.currentPlayerIndex = 0 /\ probe.out = 2
  /\ \A q \in Seats : probe.game.players[q].isDropped <=> q = 1


\* The step in which the save() of the request of slot c fails
SaveFails(c) ==
  reqs[c].pc = "save" /\ reqs'[c].pc = "idle" /\ saveConflicts(db, reqs[c].doc)

\* C24: effect ordering.  The end-game effects of a request (credit,
\* stats, seat release) are applied only once the game is stored as
\* ended, and a request whose save() fails has applied none.
C24_EffectsAfterPersist ==
  [][ \A c \in Clients :
        /\ Settles(c) => db.status = "ended"
        /\ SaveFails(c) => reqs[c].doc.status # "ended" ]_vars


\* ------------------------------------------------------------------------
\* Views of the game sent to clients
\* ------------------------------------------------------------------------

\* the '?' that stands for a masked suit or rank
QuestionMark == 0 - 1

\* game.toObject(): a card of a hand with the fields of cardSchema
cardObject(c) ==
  [ id |-> c, suit |-> Suit(c), rank |-> Rank(c), value |-> Value(c),
    isHidden |-> FALSE ]

toObject(g) ==
  [ q \in Seats |->
      [ id |-> g.players[q].id, isDropped |-> g.players[q].isDropped,
        hand |-> [ i \in DOMAIN g.players[q].hand |->
                     cardObject(g.players[q].hand[i]) ] ] ]

maskedCard(card) ==
  [ id |-> card.id, suit |-> QuestionMark, rank |-> QuestionMark, value |-> 0,
    isHidden |-> TRUE ]

\* sanitizeGameForPlayer: the hands of the other players who have not
\* dropped are masked
sanitizeGameForPlayer(g, playerId) ==
  [ q \in Seats |->
      IF toObject(g)[q].id # playerId /\ ~ toObject(g)[q].isDropped
      THEN [ toObject(g)[q] EXCEPT
               !.hand = [ i \in DOMAIN @ |-> maskedCard(@[i]) ] ]
      ELSE toObject(g)[q] ]

\* emitGameUpdate: the payload published to the game room is the document
\* it is handed
emitGameUpdate(g) == toObject(g)

\* The step in which the save() of slot c succeeds; the response and the
\* room update follow it in the same tick
Commits(c) ==
  reqs[c].pc = "save" /\ reqs'[c].pc = "idle" /\ ~ saveConflicts(db, reqs[c].doc)

\* a view shows the viewer nothing but the id of the cards of the others
MaskedFor(view, g, viewer) ==
  \A q \in Seats :
    view[q].id # viewer =>
      /\ DOMAIN view[q].hand = DOMAIN g.players[q].hand
      /\ \A i \in DOMAIN view[q].hand :
            /\ view[q].hand[i].id = g.players[q].hand[i]
            /\ view[q].hand[i].suit = QuestionMark
            /\ view[q].hand[i].rank = QuestionMark
            /\ view[q].hand[i].value = 0

Humans(g) == { g.players[q].id : q \in { r \in Seats : ~ g.players[r].isAI } }

\* C25: after a committed action the response to the acting user and the
\* update published to the room show every card of another player's hand
\* masked, with only its id kept.
C25_ViewsMasked ==
  [][ \A c \in Clients :
        Commits(c) =>
          /\ MaskedFor(sanitizeGameForPlayer(reqs[c].doc, reqs[c].req.user),
                       reqs[c].doc, reqs[c].req.user)
          /\ \A viewer \in Humans(reqs[c].doc) :
                MaskedFor(emitGameUpdate(reqs[c].doc), reqs[c].doc, viewer) ]_vars


\* The step in which slot c takes a 'spread' request
TakesSpread(c) ==
  reqs[c].pc = "idle" /\ reqs'[c].pc # "idle" /\ reqs'[c].req.action = "spread"

\* C26: a 'spread' request is always refused: it is answered 4xx or 500,
\* its document never goes on to save(), and the stored game stays as it
\* was until the answer is sent (so no AI turn of its cascade is kept).
C26_SpreadRejected ==
  [][ \A c \in Clients :
        /\ TakesSpread(c) =>
              /\ reqs'[c].pc \in { "rejected", "thrown" }
              /\ reqs'[c].pc = "thrown" =>
                    reqs'[c].error = "Spread action not implemented in this version"
              /\ db' = db
        /\ (c \in Answered /\ reqs[c].req.action = "spread") => db' = db ]_vars

\* a spread of cards that passes validateSpread has been answered 500
C26_Witness ==
  \E c \in Clients :
    /\ reqs[c].pc = "thrown"
    /\ reqs[c].req.action = "spread"
    /\ isValidSpread(reqs[c].req.cardIds)
    /\ nreq >= 2


\* ------------------------------------------------------------------------
\* A user who only draws
\* ------------------------------------------------------------------------

MaxDraws == 21

DrawInputs == { Body("user", "draw", src, NoCard, << >>) : src \in { "deck", "discard" } }

\* performAction of a draw, served when no other request is in flight
ReceiveDraw(c, req) ==
  /\ db # NoGame
  /\ \A d \in Clients : reqs[d].pc = "idle"
  /\ c = 1
  /\ nreq < MaxDraws \/ ~ Accepts(db, req)
  /\ Taken(c, req, performAction(db, req, 1, nreq + 1))

NextDraws ==
  \/ \E d \in DOMAIN Decks : CreateGame(Decks[d], Stake)
  \/ \E c \in Clients : \E req \in DrawInputs : ReceiveDraw(c, req)
  \/ \E c \in Clients : Reply(c)
  \/ \E c \in Clients : Save(c)

SpecDraws == Init /\ [][NextDraws]_vars

\* C27: a playing game never has an empty deck with at most one card on
\* the discard pile, and no draw is answered 'No cards available to draw'.
C27_NeverExhausted ==
  /\ (db # NoGame /\ db.status = "playing") =>
       ~ (Len(db.deck) = 0 /\ Len(db.discardPile) <= 1)
  /\ \A c \in Answered : reqs[c].error # "No cards available to draw"


\* ------------------------------------------------------------------------
\* isValidSpread called on its own
\* ------------------------------------------------------------------------

MaxSpreadLen == 4

\* The 3, 4, 5, 6 and 7 of spades, the 7 of hearts and of diamonds, the
\* jack, queen and king of spades, and an entry that is no card
SpreadPool == { 2, 3, 4, 5, 6, 16, 26, 7, 8, 9, NoCard }

RECURSIVE SeqsUpTo(_, _)
SeqsUpTo(S, n) ==
  IF n = 0 THEN { << >> }
  ELSE SeqsUpTo(S, n - 1)
         \cup { Append(q, x) : q \in { r \in SeqsUpTo(S, n - 1) : Len(r) = n - 1 }, x \in S }

SpreadCalls ==
  { [ op |-> "isValidSpread", cards |-> q, done |-> FALSE, out |-> FALSE ] :
      q \in SeqsUpTo(SpreadPool, MaxSpreadLen) }

CallIsValidSpread ==
  /\ probe.op = "isValidSpread" /\ ~ probe.done
  /\ probe' = [ probe EXCEPT !.done = TRUE, !.out = isValidSpread(probe.cards) ]
  /\ UNCHANGED << db, users, table, reqs, nreq, wild, audit >>

InitSpread == NoRequests /\ probe \in SpreadCalls
SpecSpread == InitSpread /\ [][CallIsValidSpread]_vars

\* the claim's spread: the entries that are cards number at least 3 and
\* are of one rank, or of one suit with distinct values that leave no gap
ClaimedSpread(cards, wf) ==
  /\ Cardinality(wf) >= 3
  /\ \/ \A i, j \in wf : cards[i] % 10 = cards[j] % 10
     \/ /\ \A i, j \in wf : cards[i] \div 10 = cards[j] \div 10
        /\ \A i, j \in wf : i # j => ClaimedValue(cards[i]) # ClaimedValue(cards[j])
        /\ \A i \in wf :
              \/ \A j \in wf : ClaimedValue(cards[j]) <= ClaimedValue(cards[i])
              \/ \E j \in wf : ClaimedValue(cards[j]) = ClaimedValue(cards[i]) + 1

\* C28: isValidSpread answers true exactly for the collections with at
\* least 3 well-formed cards that all share one rank, or all share one
\* suit with pairwise distinct, consecutive values.
C28_SpreadValidity ==
  (probe.op = "isValidSpread" /\ probe.done) =>
    (probe.out <=>
       ClaimedSpread(probe.cards,
                     { i \in DOMAIN probe.cards : probe.cards[i] >= 0 /\ probe.cards[i] < 40 }))

\* the run 3-4-5 of spades given out of order with an entry that is no
\* card among them has been accepted
C28_Witness ==
  /\ probe.op = "isValidSpread" /\ probe.done
  /\ probe.cards = << 4, NoCard, 2, 3 >>
  /\ probe.out


\* ------------------------------------------------------------------------
\* The AI cascade, action by action
\* ------------------------------------------------------------------------

\* isValidMove's answer for an action of the player at seat i
LegalAt(g, i, action, source, cardId) ==
  isValidMove(g, g.players[i].id, action, Body(g.players[i].id, action, source, cardId, << >>)).valid

\* aiLoop, aiDiscard and aiDrop followed step by step: TRUE when every
\* draw, discard and drop the loop applies passes isValidMove in the
\* document it is applied to
RECURSIVE aiLoopLegal(_, _, _, _, _)
RECURSIVE aiDiscardLegal(_, _, _, _, _)
RECURSIVE aiDropLegal(_, _, _, _, _)

aiDropLegal(discarded, currentPlayerIndex, maxAITurns, seed, now) ==
  IF discarded.error # "" THEN TRUE
  ELSE IF discarded.game.players[currentPlayerIndex].canDrop
          /\ shouldDrop(discarded.game, currentPlayerIndex,
                        getAIPersonality(discarded.game.players[currentPlayerIndex].id))
  THEN LegalAt(discarded.game, currentPlayerIndex, "drop", "none", NoCard)
  ELSE IF \A q \in Seats : discarded.game.players[q].isAI \/ discarded.game.players[q].isDropped
  THEN IF \E q \in Seats : discarded.game.players[q].isAI /\ ~ discarded.game.players[q].isDropped
       THEN LegalAt(discarded.game,
                    SetMin({ q \in Seats : /\ discarded.game.players[q].isAI
                                           /\ ~ discarded.game.players[q].isDropped }),
                    "drop", "none", NoCard)
       ELSE TRUE
  ELSE aiLoopLegal(discarded.game, discarded.game.currentPlayerIndex, maxAITurns - 1, seed, now)

aiDiscardLegal(drawn, currentPlayerIndex, maxAITurns, seed, now) ==
  IF drawn.error # "" THEN TRUE
  ELSE /\ LegalAt(drawn.game, currentPlayerIndex, "discard", "none",
                  decideCardToDiscard(
                    drawn.game.players[currentPlayerIndex].hand,
                    getAIPersonality(drawn.game.players[currentPlayerIndex].id)))
       /\ aiDropLegal(handleDiscard(drawn.game, currentPlayerIndex,
                                    decideCardToDiscard(
                                      drawn.game.players[currentPlayerIndex].hand,
                                      getAIPersonality(drawn.game.players[currentPlayerIndex].id))),
                      currentPlayerIndex, maxAITurns, seed, now)

aiLoopLegal(g, currentPlayerIndex, maxAITurns, seed, now) ==
  IF ~ (g.status = "playing" /\ g.players[currentPlayerIndex].isAI /\ maxAITurns > 0)
  THEN TRUE
  ELSE IF g.players[currentPlayerIndex].isDropped
  THEN aiLoopLegal(g, getNextActivePlayer(g, currentPlayerIndex), maxAITurns - 1, seed, now)
  ELSE /\ LegalAt(g, currentPlayerIndex, "draw",
                  decideDrawSource(g, currentPlayerIndex,
                    getAIPersonality(g.players[currentPlayerIndex].id)), NoCard)
       /\ aiDiscardLegal(handleDraw(g, currentPlayerIndex,
                                    decideDrawSource(g, currentPlayerIndex,
                                      getAIPersonality(g.players[currentPlayerIndex].id)) = "discard",
                                    seed),
                         currentPlayerIndex, maxAITurns, seed, now)

\* the cascade that follows the user's action, if one follows
cascadeLegal(handled, seed, now) ==
  IF handled.error # "" THEN TRUE
  ELSE IF handled.game.status = "playing"
  THEN aiLoopLegal(handled.game, handled.game.currentPlayerIndex, MaxAITurns, seed, now)
  ELSE TRUE

\* C29: every draw, discard and drop that the AI cascade of an applied
\* request makes passes isValidMove for that AI in the document it is
\* applied to (so the AI is the player at currentPlayerIndex).
C29_AIActionsLegal ==
  [][ \A c \in Clients :
        Applies(c) =>
          \A seed \in SeedsFor(db) :
            performAction(db, reqs'[c].req, seed, nreq + 1).game = reqs'[c].doc =>
              cascadeLegal(handleAction(db, SeatOf(db, reqs'[c].req.user), reqs'[c].req,
                                        seed, nreq + 1),
                           seed, nreq + 1) ]_vars


\* The player at seat q as the drop found it.  The requesting user's drop
\* is the first thing its request does, so it finds the player of the
\* loaded document; an AI's drop is the last thing the cascade does
\* (both drops leave the loop) and does not touch hand or penalties, so
\* it finds the player of the document that goes to save().
AtItsDrop(g, req, doc, q) ==
  IF q = SeatOf(g, req.user) /\ req.action = "drop" THEN g.players[q] ELSE doc.players[q]

\* C30: no player becomes dropped while having penalties or a hand that
\* scores more than 50, whether the drop is the user's, an AI's own or the
\* forced one.
C30_DropsAreEligible ==
  [][ \A c \in Clients :
        Applies(c) =>
          \A q \in Seats :
            (~ db.players[q].isDropped /\ reqs'[c].doc.players[q].isDropped) =>
              /\ AtItsDrop(db, reqs'[c].req, reqs'[c].doc, q).penalties = 0
              /\ calculateHandScore(AtItsDrop(db, reqs'[c].req, reqs'[c].doc, q).hand)
                   <= DropRegular ]_vars


\* what a draw from the discard pile by seat i makes of the game g
DiscardDrawOf(g, i, after) ==
  /\ after.players[i].hand = Append(g.players[i].hand, g.discardPile[1])
  /\ after.discardPile = Tail(g.discardPile)
  /\ after.deck = g.deck
  /\ \A q \in Seats :
        /\ after.players[q].penalties = g.players[q].penalties
        /\ after.players[q].hitCount = g.players[q].hitCount
        /\ q # i => after.players[q].hand = g.players[q].hand

\* no counter of hits or penalties is higher after than before
NotRaised(before, after) ==
  \A q \in Seats :
    /\ after.players[q].penalties <= before.players[q].penalties
    /\ after.players[q].hitCount <= before.players[q].hitCount

\* C31: a draw from the discard pile moves exactly its top card into the
\* drawer's hand and leaves the deck and everybody's penalties and
\* hitCount alone, for the request in flight and for whichever seat
\* would draw in a stored game; a discard and a drop raise no counter
\* either, so only a draw from the deck does.
C31_DiscardDrawFrame ==
  (db # NoGame /\ db.status = "playing") =>
    /\ \A c \in InFlight :
          (reqs[c].req.action = "draw" /\ reqs[c].req.source = "discard") =>
            DiscardDrawOf(db, SeatOf(db, reqs[c].req.user), reqs[c].doc)
    /\ \A i \in Seats :
          /\ Len(db.discardPile) > 0 =>
                /\ handleDraw(db, i, TRUE, 1).error = ""
                /\ DiscardDrawOf(db, i, handleDraw(db, i, TRUE, 1).game)
          /\ NotRaised(db, handleDrop(db, i, 0).game)
          /\ \A card \in Range(db.players[i].hand) :
                NotRaised(db, handleDiscard(db, i, card).game)

\* the user's draw from the discard pile is on its way to save() in a game
\* where somebody has penalties
C31_Witness ==
  /\ db # NoGame /\ db.status = "playing"
  /\ \E q \in Seats : db.players[q].penalties > 0
  /\ \E c \in InFlight : reqs[c].req.action = "draw" /\ reqs[c].req.source = "discard"


\* ------------------------------------------------------------------------
\* needsReshuffle and reshuffleDeck called on their own
\* ------------------------------------------------------------------------

MaxProbeDeck == 7
MaxProbePile == 3

\* a deck of up to MaxProbeDeck cards and a discard pile of up to
\* MaxProbePile other cards, cut from the two shuffled decks
ReshuffleCalls ==
  { [ op |-> "reshuffleDeck", deck |-> SubSeq(Decks[d], 1, n),
      discardPile |-> SubSeq(Decks[d], MaxProbeDeck + 2, MaxProbeDeck + 1 + m),
      seed |-> seed, done |-> FALSE, needs |-> FALSE,
      out |-> [ deck |-> << >>, discardPile |-> << >> ] ] :
      d \in DOMAIN Decks, n \in 0 .. MaxProbeDeck, m \in 0 .. MaxProbePile, seed \in Seeds }

CallReshuffleDeck ==
  /\ probe.op = "reshuffleDeck" /\ ~ probe.done
  /\ probe' = [ probe EXCEPT !.done = TRUE,
                              !.needs = needsReshuffle(probe.deck, probe.discardPile),
                              !.out = reshuffleDeck(probe.deck, probe.discardPile, probe.seed) ]
  /\ UNCHANGED << db, users, table, reqs, nreq, wild, audit >>

InitReshuffle == Init \/ (NoRequests /\ probe \in ReshuffleCalls)
NextReshuffle ==
  \/ probe = NoProbe /\ NextSeq
  \/ CallReshuffleDeck
SpecReshuffle == InitReshuffle /\ [][NextReshuffle]_vars

\* the sequence t holds the cards of s and of the set extra, each once
SameCards(t, s, extra) ==
  /\ Len(t) = Len(s) + Cardinality(extra)
  /\ Range(t) = Range(s) \cup extra
  /\ Cardinality(Range(t)) = Len(t)

\* the claim's reshuffle of a deck and a discard pile of distinct cards
ClaimedReshuffle(deck, pile, out) ==
  IF Len(pile) > 1
  THEN /\ out.discardPile = << pile[1] >>
       /\ SameCards(out.deck, deck, { pile[k] : k \in 2 .. Len(pile) })
  ELSE out.deck = deck /\ out.discardPile = pile

\* the claim's deck draw by seat i: reshuffled first or not, then one card
\* off the end of the deck
ClaimedDeckDraw(g, i, after) ==
  IF Len(g.deck) <= 5 /\ Len(g.discardPile) > 1
  THEN /\ after.discardPile = << g.discardPile[1] >>
       /\ SameCards(after.deck \o << Top(after.players[i].hand) >>, g.deck,
                    { g.discardPile[k] : k \in 2 .. Len(g.discardPile) })
  ELSE Len(g.deck) > 0 =>
         /\ after.discardPile = g.discardPile
         /\ after.deck = Pop(g.deck)
         /\ Top(after.players[i].hand) = Top(g.deck)

\* C32: reshuffleDeck keeps the top discard alone on the pile and puts the
\* other discards with the deck cards, none lost or doubled, and changes
\* nothing for a pile of at most one card; needsReshuffle is true exactly
\* for a deck of at most 5 and a pile of more than 1; and a deck draw in a
\* stored game reshuffles first exactly in that case.
C32_Reshuffle ==
  /\ (probe.op = "reshuffleDeck" /\ probe.done) =>
        /\ ClaimedReshuffle(probe.deck, probe.discardPile, probe.out)
        /\ probe.needs <=> (Len(probe.deck) <= 5 /\ Len(probe.discardPile) > 1)
  /\ (db # NoGame /\ db.status = "playing") =>
        \A i \in Seats : \A seed \in Seeds :
          ClaimedDeckDraw(db, i, handleDraw(db, i, FALSE, seed).game)

\* a stored game whose next deck draw reshuffles
C32_Witness ==
  /\ db # NoGame /\ db.status = "playing"
  /\ Len(db.deck) <= 5 /\ Len(db.discardPile) > 2


\* the game the claim describes, created from the shuffled deck d at the
\* given stake: card number k of the deal, counted from the end of the
\* deck, is in the hand of seat k % 4
ClaimedNewGame(g, d, stake) ==
  /\ Len(d) = 40 /\ Cardinality(Range(d)) = 40
  /\ DOMAIN g.players = 0 .. 3
  /\ g.players[0].id = "user" /\ ~ g.players[0].isAI
  /\ \A q \in 1 .. 3 : g.players[q].isAI
  /\ \A q \in 0 .. 3 :
        /\ Len(g.players[q].hand) = 5
        /\ \A r \in 1 .. 5 : g.players[q].hand[r] = d[40 - ((r - 1) * 4 + q)]
        /\ ~ g.players[q].isDropped
        /\ g.players[q].penalties = 0
  /\ g.status = "playing"
  /\ g.currentPlayerIndex = 0
  /\ g.pot = 4 * stake

\* C33: creation.  The step that stores a new game stores the claim's
\* game for one of the shuffled decks and takes exactly the stake off a
\* balance that covered it; with a balance below the stake no game is
\* stored and the balance stays.
C33_Creation ==
  [][ /\ (db = NoGame /\ db' # NoGame) =>
            /\ \E d \in DOMAIN Decks : ClaimedNewGame(db', Decks[d], Stake)
            /\ users.balance >= Stake
            /\ users'.balance = users.balance - Stake
      /\ (db = NoGame /\ users.balance < Stake) =>
            db' = NoGame /\ users'.balance = users.balance ]_vars

\* a game has just been created from a balance that was exactly the stake
C33_Witness ==
  db # NoGame /\ nreq = 0 /\ users.balance = 0 /\ db.status = "playing"


\* ------------------------------------------------------------------------
\* The AI cascade: how long it runs and why it stops
\* ------------------------------------------------------------------------

\* aiLoop, aiDiscard and aiDrop followed to the exit of the loop: the
\* number of iterations entered, the number of them that played a turn,
\* and the reason of the exit: "ended" and "human" and "cap" are the three
\* parts of the loop test, "aiDropped" and "noHuman" the two breaks,
\* "thrown" an exception
RECURSIVE aiLoopEnd(_, _, _, _, _, _)
RECURSIVE aiDiscardEnd(_, _, _, _, _, _)
RECURSIVE aiDropEnd(_, _, _, _, _, _)

aiDropEnd(discarded, currentPlayerIndex, maxAITurns, seed, now, n) ==
  IF discarded.error # "" THEN [ iterations |-> n[1], turns |-> n[2], why |-> "thrown" ]
  ELSE IF discarded.game.players[currentPlayerIndex].canDrop
          /\ shouldDrop(discarded.game, currentPlayerIndex,
                        getAIPersonality(discarded.game.players[currentPlayerIndex].id))
  THEN [ iterations |-> n[1], turns |-> n[2], why |-> "aiDropped" ]
  ELSE IF \A q \in Seats : discarded.game.players[q].isAI \/ discarded.game.players[q].isDropped
  THEN [ iterations |-> n[1], turns |-> n[2], why |-> "noHuman" ]
  ELSE aiLoopEnd(discarded.game, discarded.game.currentPlayerIndex, maxAITurns - 1, seed, now, n)

aiDiscardEnd(drawn, currentPlayerIndex, maxAITurns, seed, now, n) ==
  IF drawn.error # "" THEN [ iterations |-> n[1], turns |-> n[2], why |-> "thrown" ]
  ELSE aiDropEnd(handleDiscard(drawn.game, currentPlayerIndex,
                               decideCardToDiscard(
                                 drawn.game.players[currentPlayerIndex].hand,
                                 getAIPersonality(drawn.game.players[currentPlayerIndex].id))),
                 currentPlayerIndex, maxAITurns, seed, now, n)

aiLoopEnd(g, currentPlayerIndex, maxAITurns, seed, now, n) ==
  IF g.status # "playing" THEN [ iterations |-> n[1], turns |-> n[2], why |-> "ended" ]
  ELSE IF ~ g.players[currentPlayerIndex].isAI
  THEN [ iterations |-> n[1], turns |-> n[2], why |-> "human" ]
  ELSE IF ~ (maxAITurns > 0) THEN [ iterations |-> n[1], turns |-> n[2], why |-> "cap" ]
  ELSE IF g.players[currentPlayerIndex].isDropped
  THEN aiLoopEnd(g, getNextActivePlayer(g, currentPlayerIndex), maxAITurns - 1, seed, now,
                 << n[1] + 1, n[2] >>)
  ELSE aiDiscardEnd(handleDraw(g, currentPlayerIndex,
                               decideDrawSource(g, currentPlayerIndex,
                                 getAIPersonality(g.players[currentPlayerIndex].id)) = "discard",
                               seed),
                    currentPlayerIndex, maxAITurns, seed, now, << n[1] + 1, n[2] + 1 >>)

\* the cascade that follows the action of a request, if one follows
cascadeEnd(handled, seed, now) ==
  IF handled.error # "" THEN [ iterations |-> 0, turns |-> 0, why |-> "thrown" ]
  ELSE aiLoopEnd(handled.game, handled.game.currentPlayerIndex, MaxAITurns, seed, now,
                 << 0, 0 >>)

\* the cascade of the request that slot c takes in this step, for the
\* shuffle outcome that gives the document the slot holds
CascadeOf(c, seed) ==
  cascadeEnd(handleAction(db, SeatOf(db, reqs'[c].req.user), reqs'[c].req, seed, nreq + 1),
             seed, nreq + 1)

\* C34: the cascade of every applied request stops after at most 10
\* iterations of its loop, and never because the cap ran out while the
\* game was still being played with an AI to move (the case in which
\* nobody is force-dropped).
C34_CascadeBounded ==
  [][ \A c \in Clients :
        Applies(c) =>
          \A seed \in SeedsFor(db) :
            performAction(db, reqs'[c].req, seed, nreq + 1).game = reqs'[c].doc =>
              /\ CascadeOf(c, seed).iterations <= 10
              /\ CascadeOf(c, seed).why # "cap" ]_vars


\* the user's discard is on its way to save() after a cascade in which
\* all three AIs played a turn and the turn came back to the user
C34_Witness ==
  /\ db # NoGame /\ db.status = "playing"
  /\ \E c \in InFlight :
        /\ reqs[c].req.action = "discard"
        /\ reqs[c].doc.status = "playing"
        /\ reqs[c].doc.currentPlayerIndex = 0
        /\ \A q \in 1 .. 3 : /\ ~ reqs[c].doc.players[q].isDropped
                              /\ reqs[c].doc.players[q].hand # db.players[q].hand


\* the claim's shape of a stored game
StatusMatchesDrops(g) ==
  /\ g.status = "playing" => Cardinality(Active(g)) >= 2
  /\ g.status = "ended" =>
        /\ Cardinality(Active(g)) <= 1
        /\ g.winner # ""
        /\ g.winningMultiplier \in { 1, 2, 3 }
        /\ g.endTime # 0

\* C35: every stored game is 'playing' only with at least two players not
\* dropped and 'ended' only with at most one and with winner,
\* winningMultiplier and endTime set, and no stored player goes back from
\* dropped to not dropped.
C35_StatusAndDrops ==
  [][ db' # NoGame =>
        /\ StatusMatchesDrops(db')
        /\ db # NoGame => \A q \in Seats : db.players[q].isDropped => db'.players[q].isDropped ]_vars

\* a stored game has ended after two requests or more
C35_Witness ==
  db # NoGame /\ db.status = "ended" /\ nreq >= 2 /\ Cardinality(Active(db)) <= 1


\* C36: in every stored game a player whose canDrop flag is true has no
\* penalties and a hand that scores at most 50.
C36_CanDropFlag ==
  db # NoGame =>
    \A q \in Seats :
      db.players[q].canDrop =>
        /\ db.players[q].penalties = 0
        /\ calculateHandScore(db.players[q].hand) <= 50


\* C37: the first-turn flag has no effect on drop eligibility: the answer
\* of canPlayerDrop for a player is the answer it gives for the same
\* player with the flag the other way.
C37_FirstTurnNoEffect ==
  (probe.op = "canPlayerDrop" /\ probe.done) =>
    probe.out = canPlayerDrop(probe.player, ~ probe.isFirstTurn)

\* canPlayerDrop has answered for a first turn and a hand between the
\* first-turn limit and the regular one
C37_Witness ==
  /\ probe.op = "canPlayerDrop" /\ probe.done /\ probe.isFirstTurn
  /\ probe.player.penalties = 0
  /\ calculateHandScore(probe.player.hand) > 41
  /\ calculateHandScore(probe.player.hand) <= 50
  /\ probe.out


\* the seat of the player whose drop ended the stored game (endGame is
\* called with the id of the dropper)
LastDropper(g) == SeatOf(g, g.winner)

\* C38: with one request served at a time, the drop that ended a stored
\* game found at least two other players dropped, so it was not a first
\* turn: the game has winningMultiplier 3 only when the last dropper's
\* hand scores 11 or less, and a hand of 41 is paid once.
C38_NoFirstTurnTriple ==
  (db # NoGame /\ db.status = "ended") =>
    /\ Cardinality((Seats \ Active(db)) \ { LastDropper(db) }) >= 2
    /\ db.winningMultiplier = 3 =>
          calculateHandScore(db.players[LastDropper(db)].hand) <= 11
    /\ calculateHandScore(db.players[LastDropper(db)].hand) = 41 =>
          db.winningMultiplier = 1

\* a stored game was ended by the drop of a hand of exactly 41
C38_Witness ==
  /\ db # NoGame /\ db.status = "ended"
  /\ calculateHandScore(db.players[LastDropper(db)].hand) = 41
  /\ db.winningMultiplier = 1


\* the claim's bound on the counters of one player
CountersBounded(player) ==
  /\ player.penalties <= player.hitCount + 1
  /\ player.penalties > 0 => player.hitCount >= 1

\* C39: for every player of the stored game and of every document on its
\* way to save(), penalties <= hitCount + 1, and penalties > 0 only with
\* hitCount >= 1.
C39_PenaltiesBelowHits ==
  /\ db # NoGame => \A q \in Seats : CountersBounded(db.players[q])
  /\ \A c \in InFlight : \A q \in Seats : CountersBounded(reqs[c].doc.players[q])

\* a stored player was hit a second time and stands at the bound
C39_Witness ==
  /\ db # NoGame
  /\ \E q \in Seats : /\ db.players[q].hitCount >= 2
                        /\ db.players[q].penalties = db.players[q].hitCount + 1


\* C40: the cascade of every applied request plays at most three AI turns
\* and stops because a human is to move, an AI dropped, no human is left
\* or the game has ended: never because the cap of iterations ran out.
C40_CascadeStops ==
  [][ \A c \in Clients :
        Applies(c) =>
          \A seed \in SeedsFor(db) :
            performAction(db, reqs'[c].req, seed, nreq + 1).game = reqs'[c].doc =>
              /\ CascadeOf(c, seed).turns <= 3
              /\ CascadeOf(c, seed).why \in { "human", "aiDropped", "noHuman", "ended" } ]_vars

\* the user's discard is on its way to save() after a cascade that an AI's
\* own drop stopped, with the user still in the game
C40_Witness ==
  /\ db # NoGame /\ db.status = "playing"
  /\ \E c \in InFlight :
        /\ reqs[c].req.action = "discard"
        /\ reqs[c].doc.status = "playing"
        /\ ~ reqs[c].doc.players[0].isDropped
        /\ \E q \in 1 .. 3 : reqs[c].doc.players[q].isDropped /\ ~ db.players[q].isDropped

=============================================================================
